---------------------------- MODULE Spec2Model ----------------------------
(***************************************************************************)
(* Model of the boulder Policy Authority (policy/pa.go): the hostname      *)
(* policy stores and their reload, the challenge allow-list reload, and    *)
(* the two identifier validators WillingToIssue / WillingToIssueWildcard.  *)
(*                                                                         *)
(* A Go string is a sequence of one-character strings, so that Split,      *)
(* Join, SplitN, HasPrefix and Count work on characters as they do in the  *)
(* code.  A Go map[string]bool is a record [nil, keys]: the nil map and    *)
(* the empty map are different values, and reading either gives false.     *)
(***************************************************************************)
EXTENDS Integers, Sequences, FiniteSets, TLC

(***************************************************************************)
(* Go strings                                                              *)
(***************************************************************************)

\* a name written label by label: Dot(<<"e","x">>, <<"c","o","m">>) is "ex.com"
Dot(a, b) == a \o <<".">> \o b

Rep(ch, n) == [i \in 1..n |-> ch]

HasPrefix(s, p) == Len(s) >= Len(p) /\ SubSeq(s, 1, Len(p)) = p

HasSuffix(s, p) == Len(s) >= Len(p) /\ SubSeq(s, Len(s) - Len(p) + 1, Len(s)) = p

TrimPrefix(s, p) == IF HasPrefix(s, p) THEN SubSeq(s, Len(p) + 1, Len(s)) ELSE s

Count(s, ch) == Cardinality({i \in 1..Len(s) : s[i] = ch})

\* position of the first ch in s, 0 when there is none
Index(s, ch) ==
    IF \E i \in 1..Len(s) : s[i] = ch
    THEN CHOOSE i \in 1..Len(s) : s[i] = ch /\ \A j \in 1..(i - 1) : s[j] # ch
    ELSE 0

\* position of the last ch in s, 0 when there is none
LastIndex(s, ch) ==
    IF \E i \in 1..Len(s) : s[i] = ch
    THEN CHOOSE i \in 1..Len(s) : s[i] = ch /\ \A j \in (i + 1)..Len(s) : s[j] # ch
    ELSE 0

RECURSIVE Split(_, _)
Split(s, sep) ==
    LET i == Index(s, sep)
    IN  IF i = 0 THEN <<s>>
        ELSE <<SubSeq(s, 1, i - 1)>> \o Split(SubSeq(s, i + 1, Len(s)), sep)

\* strings.SplitN(s, sep, 2)
SplitN2(s, sep) ==
    LET i == Index(s, sep)
    IN  IF i = 0 THEN <<s>>
        ELSE <<SubSeq(s, 1, i - 1), SubSeq(s, i + 1, Len(s))>>

RECURSIVE Join(_, _)
Join(parts, sep) ==
    IF Len(parts) = 0 THEN <<>>
    ELSE IF Len(parts) = 1 THEN parts[1]
    ELSE parts[1] \o <<sep>> \o Join(Tail(parts), sep)

Lower == {"a", "b", "c", "d", "e", "f", "g", "h", "i", "j", "k", "l", "m",
          "n", "o", "p", "q", "r", "s", "t", "u", "v", "w", "x", "y", "z"}

Upper == {"A", "B", "C", "D", "E", "F", "G", "H", "I", "J", "K", "L", "M",
          "N", "O", "P", "Q", "R", "S", "T", "U", "V", "W", "X", "Y", "Z"}

Digit == {"0", "1", "2", "3", "4", "5", "6", "7", "8", "9"}

isDNSCharacter(ch) == ch \in Lower \/ ch \in Upper \/ ch \in Digit \/ ch = "." \/ ch = "-"

(***************************************************************************)
(* Go maps of type map[string]bool                                         *)
(***************************************************************************)

NilMap == [nil |-> TRUE, keys |-> {}]

MakeMap(ks) == [nil |-> FALSE, keys |-> ks]

\* m[k]: false for an absent key and for the nil map
Lookup(m, k) == k \in m.keys

(***************************************************************************)
(* Errors                                                                  *)
(***************************************************************************)

Nil == "nil"

errInvalidIdentifier == "Invalid identifier type"
errNonPublic == "Name does not end in a public suffix"
errICANNTLD == "Name is an ICANN TLD"
errBlacklisted == "Policy forbids issuing for name"
errInvalidDNSCharacter == "Invalid character in DNS name"
errNameTooLong == "DNS name too long"
errIPAddress == "Issuance for IP addresses not supported"
errTooManyLabels == "DNS name has too many labels"
errEmptyName == "DNS name was empty"
errNameEndsInDot == "DNS name ends in a period"
errTooFewLabels == "DNS name does not have enough labels"
errLabelTooShort == "DNS label is too short"
errLabelTooLong == "DNS label is too long"
errMalformedIDN == "DNS label contains malformed punycode"
errInvalidRLDH == "DNS name contains a R-LDH label"
errTooManyWildcards == "DNS name had more than one wildcard"
errMalformedWildcard == "DNS name had a malformed wildcard label"
errICANNTLDWildcard == "DNS name was a wildcard for an ICANN TLD"
errWildcardNotSupported == "Wildcard names not supported"
errNotLoaded == "Hostname policy not yet loaded."
errNoEntries == "No entries in blacklist."
errMalformedEntry == "Malformed exact blacklist entry, only one label"
errUnmarshal == "json: cannot unmarshal"

\* The type a boulder error carries: berrors.MalformedError and
\* berrors.RejectedIdentifierError make errors of these two types; an error
\* made by fmt.Errorf or returned by json.Unmarshal carries none.
Malformed == "Malformed"
RejectedIdentifier == "RejectedIdentifier"
NoErrorType == "none"

\* a slip: every error of the list made with berrors.MalformedError
ErrorTypeAllMalformed(err) ==
    IF err \in {errNotLoaded, errNoEntries, errMalformedEntry, errUnmarshal}
    THEN NoErrorType
    ELSE Malformed

ErrorType(err) ==
    IF err \in {errBlacklisted, errInvalidRLDH} THEN RejectedIdentifier
    ELSE IF err \in {errInvalidIdentifier, errNonPublic, errICANNTLD,
                     errInvalidDNSCharacter, errNameTooLong, errIPAddress,
                     errTooManyLabels, errEmptyName, errNameEndsInDot,
                     errTooFewLabels, errLabelTooShort, errLabelTooLong,
                     errMalformedIDN, errTooManyWildcards, errMalformedWildcard,
                     errICANNTLDWildcard, errWildcardNotSupported}
    THEN Malformed
    ELSE NoErrorType

maxLabels == 10
maxLabelLength == 63
maxDNSIdentifierLength == 230

IdentifierDNS == "dns"


(***************************************************************************)
(* Hostname policy: loadHostnamePolicy, checkHostLists,                    *)
(* checkWildcardHostList                                                   *)
(***************************************************************************)

\* The bytes handed to loadHostnamePolicy, as json.Unmarshal sees them:
\* valid = FALSE is input that does not unmarshal into blacklistJSON.
BlacklistJSON(blist, exact) == [valid |-> TRUE, Blacklist |-> blist, ExactBlacklist |-> exact]

BadJSON == [valid |-> FALSE, Blacklist |-> <<>>, ExactBlacklist |-> <<>>]

\* a slip: the first part of the split, the leftmost label, goes to the
\* wildcard map instead of the rest of the name
RECURSIVE exactLoopFirstLabel(_, _, _, _)
exactLoopFirstLabel(list, i, exactNameMap, wildcardNameMap) ==
    IF i > Len(list)
    THEN [err |-> Nil, exactNameMap |-> exactNameMap, wildcardNameMap |-> wildcardNameMap]
    ELSE LET v == list[i]
             parts == SplitN2(v, ".")
         IN  IF Len(parts) < 2
             THEN [err |-> errMalformedEntry,
                   exactNameMap |-> exactNameMap \cup {v},
                   wildcardNameMap |-> wildcardNameMap]
             ELSE exactLoopFirstLabel(list, i + 1, exactNameMap \cup {v},
                                      wildcardNameMap \cup {parts[1]})

\* the loop over bl.ExactBlacklist, from entry i on
RECURSIVE exactLoop(_, _, _, _)
exactLoop(list, i, exactNameMap, wildcardNameMap) ==
    IF i > Len(list)
    THEN [err |-> Nil, exactNameMap |-> exactNameMap, wildcardNameMap |-> wildcardNameMap]
    ELSE LET v == list[i]
             parts == SplitN2(v, ".")
         IN  IF Len(parts) < 2
             THEN [err |-> errMalformedEntry,
                   exactNameMap |-> exactNameMap \cup {v},
                   wildcardNameMap |-> wildcardNameMap]
             ELSE exactLoop(list, i + 1, exactNameMap \cup {v},
                            wildcardNameMap \cup {parts[2]})

\* a slip: a file with an empty Blacklist taken as any other
buildMapsAllowEmpty(b) ==
    IF ~b.valid
    THEN [err |-> errUnmarshal, nameMap |-> {}, exactNameMap |-> {}, wildcardNameMap |-> {}]
    ELSE LET nameMap == {b.Blacklist[i] : i \in 1..Len(b.Blacklist)}
             r == exactLoop(b.ExactBlacklist, 1, {}, {})
         IN  [err |-> r.err, nameMap |-> nameMap,
              exactNameMap |-> r.exactNameMap, wildcardNameMap |-> r.wildcardNameMap]

\* loadHostnamePolicy up to the point where it takes the lock: the error it
\* returns, or the three maps it has built
buildMaps(b) ==
    IF ~b.valid
    THEN [err |-> errUnmarshal, nameMap |-> {}, exactNameMap |-> {}, wildcardNameMap |-> {}]
    ELSE IF Len(b.Blacklist) = 0
    THEN [err |-> errNoEntries, nameMap |-> {}, exactNameMap |-> {}, wildcardNameMap |-> {}]
    ELSE LET nameMap == {b.Blacklist[i] : i \in 1..Len(b.Blacklist)}
             r == exactLoop(b.ExactBlacklist, 1, {}, {})
         IN  [err |-> r.err, nameMap |-> nameMap,
              exactNameMap |-> r.exactNameMap, wildcardNameMap |-> r.wildcardNameMap]

\* the three stores of an AuthorityImpl
Stores(bl, ex, wc) == [blacklist |-> bl, exactBlacklist |-> ex, wildcardExactBlacklist |-> wc]

\* a slip this code could have: the maps are assigned as they are built, so a
\* load that fails half way has already replaced them
loadHostnamePolicyInPlace(pa, b) ==
    LET r == buildMaps(b)
    IN  IF r.err = errUnmarshal \/ r.err = errNoEntries
        THEN [err |-> r.err, pa |-> pa]
        ELSE [err |-> r.err,
              pa |-> Stores(MakeMap(r.nameMap), MakeMap(r.exactNameMap),
                            MakeMap(r.wildcardNameMap))]

\* a slip: the wildcard map is added to, not made afresh, so entries of an
\* earlier load stay in it
loadHostnamePolicyMerge(pa, b) ==
    LET r == buildMaps(b)
    IN  IF r.err # Nil
        THEN [err |-> r.err, pa |-> pa]
        ELSE [err |-> Nil,
              pa |-> Stores(MakeMap(r.nameMap), MakeMap(r.exactNameMap),
                            MakeMap(pa.wildcardExactBlacklist.keys \cup r.wildcardNameMap))]

\* loadHostnamePolicy as a whole: its error and the stores after it
loadHostnamePolicy(pa, b) ==
    LET r == buildMaps(b)
    IN  IF r.err # Nil
        THEN [err |-> r.err, pa |-> pa]
        ELSE [err |-> Nil,
              pa |-> Stores(MakeMap(r.nameMap), MakeMap(r.exactNameMap),
                            MakeMap(r.wildcardNameMap))]

checkWildcardHostList(pa, domain) ==
    IF pa.blacklist.nil THEN errNotLoaded
    ELSE IF Lookup(pa.wildcardExactBlacklist, domain) THEN errBlacklisted
    ELSE Nil

\* strings.Join(labels[i:], ".") of checkHostLists' loop (i counts from 1 here)
joined(labels, i) == Join(SubSeq(labels, i, Len(labels)), ".")

\* a slip: no test for the nil map, whose reads all give false
checkHostListsNoNilCheck(pa, domain) ==
    LET labels == Split(domain, ".")
    IN  IF \E i \in 1..Len(labels) : Lookup(pa.blacklist, joined(labels, i))
        THEN errBlacklisted
        ELSE IF Lookup(pa.exactBlacklist, domain) THEN errBlacklisted
        ELSE Nil

\* a slip: the blacklist matched on trailing characters (strings.HasSuffix),
\* not on whole labels
checkHostListsCharSuffix(pa, domain) ==
    IF pa.blacklist.nil THEN errNotLoaded
    ELSE IF \E e \in pa.blacklist.keys : HasSuffix(domain, e) THEN errBlacklisted
    ELSE IF Lookup(pa.exactBlacklist, domain) THEN errBlacklisted
    ELSE Nil

\* a slip: the exact blacklist looked up inside the loop, for every suffix
checkHostListsExactInLoop(pa, domain) ==
    IF pa.blacklist.nil THEN errNotLoaded
    ELSE LET labels == Split(domain, ".")
         IN  IF \E i \in 1..Len(labels) :
                    \/ Lookup(pa.blacklist, joined(labels, i))
                    \/ Lookup(pa.exactBlacklist, joined(labels, i))
             THEN errBlacklisted
             ELSE Nil

checkHostLists(pa, domain) ==
    IF pa.blacklist.nil THEN errNotLoaded
    ELSE LET labels == Split(domain, ".")
         IN  IF \E i \in 1..Len(labels) : Lookup(pa.blacklist, joined(labels, i))
             THEN errBlacklisted
             ELSE IF Lookup(pa.exactBlacklist, domain) THEN errBlacklisted
             ELSE Nil

(***************************************************************************)
(* Challenge allow-list: loadChallengesWhitelist                           *)
(***************************************************************************)

\* The bytes handed to loadChallengesWhitelist: wl is the unmarshalled
\* map[string][]int64, a function from challenge types to sequences.
WhitelistJSON(wl) == [valid |-> TRUE, wl |-> wl]

BadWhitelistJSON == [valid |-> FALSE, wl |-> <<>>]

\* a nil map[string]map[int64]bool, and one made from a function to sets
NilWhitelist == [nil |-> TRUE, m |-> <<>>]

\* a slip: the new lists added to the map already there
loadChallengesWhitelistMerge(old, b) ==
    IF ~b.valid
    THEN [err |-> errUnmarshal, wl |-> old]
    ELSE LET new == [k \in DOMAIN b.wl |-> {b.wl[k][i] : i \in 1..Len(b.wl[k])}]
             keys == DOMAIN new \cup (IF old.nil THEN {} ELSE DOMAIN old.m)
         IN  [err |-> Nil,
              wl |-> [nil |-> FALSE,
                      m |-> [k \in keys |->
                               (IF k \in DOMAIN new THEN new[k] ELSE {})
                               \cup (IF ~old.nil /\ k \in DOMAIN old.m THEN old.m[k] ELSE {})]]]

loadChallengesWhitelist(old, b) ==
    IF ~b.valid
    THEN [err |-> errUnmarshal, wl |-> old]
    ELSE [err |-> Nil,
          wl |-> [nil |-> FALSE,
                  m |-> [k \in DOMAIN b.wl |-> {b.wl[k][i] : i \in 1..Len(b.wl[k])}]]]

(***************************************************************************)
(* Challenge selection: ChallengeTypeEnabled, ChallengesFor, and the       *)
(* math/rand generator New seeds with 99                                   *)
(***************************************************************************)

ChallengeTypeHTTP01 == "http-01"
ChallengeTypeTLSSNI01 == "tls-sni-01"
ChallengeTypeTLSALPN01 == "tls-alpn-01"
ChallengeTypeDNS01 == "dns-01"

errWildcardDNS01Disabled ==
    "Challenges requested for wildcard identifier but DNS-01 challenge type is not enabled"

\* a core.Challenge, by its type; its token, a random string, is left out
Challenge(type) == [Type |-> type]

\* The generator: a state of RngModulus values, stepped once for each number
\* drawn; rand.NewSource(seed) is the state the seed gives.
RngSeed == 99
RngModulus == 16

NewSource(seed) == seed % RngModulus

rngStep(rng) == (5 * rng + 3) % RngModulus

\* r.Intn(n) on the state just stepped to: a number of 0..n-1
Intn(rng, n) == (rng * n) \div RngModulus

\* r.Perm(n): m[i] = m[j]; m[j] = i for i = 0..n-1 with j = r.Intn(i+1);
\* m[k+1] here is m[k] there.  The result is the permutation and the
\* generator after the n draws.
RECURSIVE PermLoop(_, _, _, _)
PermLoop(m, i, n, rng) ==
    IF i = n THEN [m |-> m, rng |-> rng]
    ELSE LET r == rngStep(rng)
             j == Intn(r, i + 1)
             m1 == [m EXCEPT ![i + 1] = m[j + 1]]
         IN  PermLoop([m1 EXCEPT ![j + 1] = i], i + 1, n, r)

Perm(rng, n) == PermLoop([k \in 1..n |-> 0], 0, n, rng)

\* chal holds the fields ChallengeTypeEnabled and ChallengesFor read:
\* enabledChallenges, enabledChallengesWhitelist, pseudoRNG, and the feature
\* flag TLSSNIRevalidation
ChallengeTypeEnabled(chal, t, regID) ==
    \/ Lookup(chal.enabledChallenges, t)
    \/ /\ ~chal.enabledChallengesWhitelist.nil
       /\ t \in DOMAIN chal.enabledChallengesWhitelist.m
       /\ regID \in chal.enabledChallengesWhitelist.m[t]

\* a slip: TLS-SNI-01 offered for every revalidation, the feature on or off
collectedRevalidationAlways(chal, regID, revalidation) ==
    (IF ChallengeTypeEnabled(chal, ChallengeTypeHTTP01, regID)
     THEN <<Challenge(ChallengeTypeHTTP01)>> ELSE <<>>)
    \o (IF ChallengeTypeEnabled(chal, ChallengeTypeTLSSNI01, regID) \/ revalidation
        THEN <<Challenge(ChallengeTypeTLSSNI01)>> ELSE <<>>)
    \o (IF ChallengeTypeEnabled(chal, ChallengeTypeTLSALPN01, regID)
        THEN <<Challenge(ChallengeTypeTLSALPN01)>> ELSE <<>>)
    \o (IF ChallengeTypeEnabled(chal, ChallengeTypeDNS01, regID)
        THEN <<Challenge(ChallengeTypeDNS01)>> ELSE <<>>)

\* lines 442-462: the challenges of a name without wildcard, in the order
\* of the four if statements
collected(chal, regID, revalidation) ==
    (IF ChallengeTypeEnabled(chal, ChallengeTypeHTTP01, regID)
     THEN <<Challenge(ChallengeTypeHTTP01)>> ELSE <<>>)
    \o (IF \/ ChallengeTypeEnabled(chal, ChallengeTypeTLSSNI01, regID)
           \/ (chal.TLSSNIRevalidation /\ revalidation)
        THEN <<Challenge(ChallengeTypeTLSSNI01)>> ELSE <<>>)
    \o (IF ChallengeTypeEnabled(chal, ChallengeTypeTLSALPN01, regID)
        THEN <<Challenge(ChallengeTypeTLSALPN01)>> ELSE <<>>)
    \o (IF ChallengeTypeEnabled(chal, ChallengeTypeDNS01, regID)
        THEN <<Challenge(ChallengeTypeDNS01)>> ELSE <<>>)

\* a slip: the generator made anew from the seed for each call
shuffleFromSeed(challenges, rng) ==
    LET n == Len(challenges)
        p1 == Perm(NewSource(RngSeed), n)
        shuffled == [i \in 1..n |-> challenges[p1.m[i] + 1]]
        combinations == [i \in 1..n |-> <<i - 1>>]
        p2 == Perm(p1.rng, n)
        shuffledCombos == [i \in 1..n |-> combinations[p2.m[i] + 1]]
    IN  [challenges |-> shuffled, combinations |-> shuffledCombos,
         err |-> Nil, pseudoRNG |-> rng]

\* lines 464-481: the two shuffles; the result carries the generator after
\* the two draws
shuffle(challenges, rng) ==
    LET n == Len(challenges)
        p1 == Perm(rng, n)
        shuffled == [i \in 1..n |-> challenges[p1.m[i] + 1]]
        combinations == [i \in 1..n |-> <<i - 1>>]
        p2 == Perm(p1.rng, n)
        shuffledCombos == [i \in 1..n |-> combinations[p2.m[i] + 1]]
    IN  [challenges |-> shuffled, combinations |-> shuffledCombos,
         err |-> Nil, pseudoRNG |-> p2.rng]

\* a slip: a wildcard given every enabled challenge once DNS-01 is enabled
ChallengesForWildcardAll(chal, identifier, regID, revalidation) ==
    IF /\ HasPrefix(identifier.Value, <<"*", ".">>)
       /\ ~ChallengeTypeEnabled(chal, ChallengeTypeDNS01, regID)
    THEN [challenges |-> <<>>, combinations |-> <<>>,
          err |-> errWildcardDNS01Disabled, pseudoRNG |-> chal.pseudoRNG]
    ELSE shuffle(collected(chal, regID, revalidation), chal.pseudoRNG)

ChallengesFor(chal, identifier, regID, revalidation) ==
    IF HasPrefix(identifier.Value, <<"*", ".">>)
    THEN IF ~ChallengeTypeEnabled(chal, ChallengeTypeDNS01, regID)
         THEN [challenges |-> <<>>, combinations |-> <<>>,
               err |-> errWildcardDNS01Disabled, pseudoRNG |-> chal.pseudoRNG]
         ELSE shuffle(<<Challenge(ChallengeTypeDNS01)>>, chal.pseudoRNG)
    ELSE shuffle(collected(chal, regID, revalidation), chal.pseudoRNG)

(***************************************************************************)
(* What WillingToIssue calls: net.ParseIP, the label regular expressions,  *)
(* idna.ToUnicode, norm.NFC.IsNormalString, iana.ExtractSuffix             *)
(***************************************************************************)

DigitValue(ch) ==
    CASE ch = "0" -> 0 [] ch = "1" -> 1 [] ch = "2" -> 2 [] ch = "3" -> 3
      [] ch = "4" -> 4 [] ch = "5" -> 5 [] ch = "6" -> 6 [] ch = "7" -> 7
      [] ch = "8" -> 8 [] ch = "9" -> 9

\* net's dtoi on a string of digits: its value, or -1 once it reaches 0xFFFFFF
RECURSIVE dtoi(_, _, _)
dtoi(s, i, n) ==
    IF i > Len(s) THEN n
    ELSE LET m == n * 10 + DigitValue(s[i])
         IN  IF m >= 16777215 THEN -1 ELSE dtoi(s, i + 1, m)

\* net.ParseIP(domain) != nil, for a domain of DNS characters: with no ':'
\* in it only the dotted-quad form can parse, four decimal fields up to 255
ParseIP(domain) ==
    LET fields == Split(domain, ".")
    IN  /\ Count(domain, ":") = 0
        /\ Len(fields) = 4
        /\ \A k \in 1..4 :
              /\ Len(fields[k]) > 0
              /\ \A i \in 1..Len(fields[k]) : fields[k][i] \in Digit
              /\ dtoi(fields[k], 1, 0) >= 0
              /\ dtoi(fields[k], 1, 0) <= 255

\* a slip: the expression compiled with the flag (?i)
dnsLabelRegexpIgnoreCase(label) ==
    /\ Len(label) >= 1
    /\ Len(label) <= 63
    /\ label[1] \in Lower \cup Upper \cup Digit
    /\ \A i \in 2..Len(label) : label[i] \in Lower \cup Upper \cup Digit \cup {"-"}

\* dnsLabelRegexp = ^[a-z0-9][a-z0-9-]{0,62}$
dnsLabelRegexp(label) ==
    /\ Len(label) >= 1
    /\ Len(label) <= 63
    /\ label[1] \in Lower \cup Digit
    /\ \A i \in 2..Len(label) : label[i] \in Lower \cup Digit \cup {"-"}

\* punycodeRegexp = ^xn--
punycodeRegexp(label) == HasPrefix(label, <<"x", "n", "-", "-">>)

\* idnReservedRegexp = ^[a-z0-9]{2}--
idnReservedRegexp(label) ==
    /\ Len(label) >= 4
    /\ label[1] \in Lower \cup Digit
    /\ label[2] \in Lower \cup Digit
    /\ label[3] = "-"
    /\ label[4] = "-"

LowerSeq == <<"a", "b", "c", "d", "e", "f", "g", "h", "i", "j", "k", "l", "m",
              "n", "o", "p", "q", "r", "s", "t", "u", "v", "w", "x", "y", "z">>

UpperSeq == <<"A", "B", "C", "D", "E", "F", "G", "H", "I", "J", "K", "L", "M",
              "N", "O", "P", "Q", "R", "S", "T", "U", "V", "W", "X", "Y", "Z">>

\* punycode's decodeDigit: a-z and A-Z are 0..25, 0-9 are 26..35, else -1
decodeDigit(ch) ==
    IF ch \in Lower THEN Index(LowerSeq, ch) - 1
    ELSE IF ch \in Upper THEN Index(UpperSeq, ch) - 1
    ELSE IF ch \in Digit THEN DigitValue(ch) + 26
    ELSE -1

\* the code point of a basic (ASCII) character copied through by the decoder;
\* only letters, digits and '-' reach it
AsciiCode(ch) ==
    IF ch \in Lower THEN 96 + Index(LowerSeq, ch)
    ELSE IF ch \in Upper THEN 64 + Index(UpperSeq, ch)
    ELSE IF ch \in Digit THEN 48 + DigitValue(ch)
    ELSE 45

MaxInt32 == 2147483647
MaxRune == 1114111

\* punycode's adapt (RFC 3492 section 6.1), its loop unrolled by recursion
RECURSIVE adaptLoop(_, _)
adaptLoop(delta, k) ==
    IF delta > 455 THEN adaptLoop(delta \div 35, k + 36)
    ELSE k + (36 * delta) \div (delta + 38)

adapt(delta, numPoints, firstTime) ==
    LET d1 == IF firstTime THEN delta \div 700 ELSE delta \div 2
        d2 == d1 + (d1 \div numPoints)
    IN  adaptLoop(d2, 0)

\* the inner loop of decode: one generalized variable-length integer, read
\* from position pos.  ok = FALSE is punyError.
RECURSIVE decodeInt(_, _, _, _, _, _)
decodeInt(encoded, pos, i, w, k, bias) ==
    IF pos > Len(encoded) THEN [ok |-> FALSE, pos |-> pos, i |-> i]
    ELSE LET digit == decodeDigit(encoded[pos])
             i2 == i + digit * w
             t0 == k - bias
             t == IF t0 < 1 THEN 1 ELSE IF t0 > 26 THEN 26 ELSE t0
             w2 == w * (36 - t)
         IN  IF digit < 0 THEN [ok |-> FALSE, pos |-> pos, i |-> i]
             ELSE IF i2 > MaxInt32 THEN [ok |-> FALSE, pos |-> pos, i |-> i]
             ELSE IF digit < t THEN [ok |-> TRUE, pos |-> pos + 1, i |-> i2]
             ELSE IF w2 >= MaxInt32 \div 36 THEN [ok |-> FALSE, pos |-> pos, i |-> i]
             ELSE decodeInt(encoded, pos + 1, i2, w2, k + 36, bias)

InsertAt(out, at, n) == SubSeq(out, 1, at) \o <<n>> \o SubSeq(out, at + 1, Len(out))

\* the outer loop of decode; i counts from 0 as in the code
RECURSIVE decodeLoop(_, _, _, _, _, _)
decodeLoop(encoded, pos, i, n, bias, output) ==
    IF pos > Len(encoded) THEN [ok |-> TRUE, runes |-> output]
    ELSE LET r == decodeInt(encoded, pos, i, 1, 36, bias)
             x == Len(output) + 1
             n2 == n + (r.i \div x)
             i2 == r.i % x
         IN  IF ~r.ok THEN [ok |-> FALSE, runes |-> <<>>]
             ELSE IF n2 > MaxRune \/ Len(output) >= 1024 THEN [ok |-> FALSE, runes |-> <<>>]
             ELSE decodeLoop(encoded, r.pos, i2 + 1, n2, adapt(r.i - i, x, i = 0),
                             InsertAt(output, i2, n2))

\* x/net/idna's punycode decode of the part of a label after "xn--", as the
\* code points it gives
decode(encoded) ==
    LET last == LastIndex(encoded, "-")
    IN  IF Len(encoded) = 0 THEN [ok |-> TRUE, runes |-> <<>>]
        ELSE IF last = 1 THEN [ok |-> FALSE, runes |-> <<>>]
        ELSE IF last = Len(encoded)
        THEN [ok |-> TRUE, runes |-> [j \in 1..(Len(encoded) - 1) |-> AsciiCode(encoded[j])]]
        ELSE decodeLoop(encoded, last + 1, 0, 128, 72,
                        [j \in 1..(last - 1) |-> AsciiCode(encoded[j])])

\* idna.ToUnicode(label) for one label that begins with "xn--": the Punycode
\* profile decodes it and validates nothing more
ToUnicode(label) == decode(SubSeq(label, 5, Len(label)))

\* Pairs (starter, combining mark) that have a canonical composition: the part
\* of the Unicode composition table the names of this model can reach.
\* e + U+0301 composes to U+00E9, u + U+0308 to U+00FC.
ComposingPairs == {<<101, 769>>, <<117, 776>>}

\* norm.NFC.IsNormalString on the decoded code points
IsNormalString(runes) ==
    \A j \in 1..(Len(runes) - 1) : <<runes[j], runes[j + 1]>> \notin ComposingPairs

\* The ICANN public suffixes the model knows: "com", "uk" and "co.uk".
PublicSuffixes ==
    {<<"c", "o", "m">>, <<"u", "k">>, Dot(<<"c", "o">>, <<"u", "k">>)}

\* iana.ExtractSuffix(domain): the longest dot-delimited suffix of domain that
\* is a public suffix; err = TRUE when it has none
ExtractSuffix(domain) ==
    LET labels == Split(domain, ".")
        hits == {i \in 1..Len(labels) : joined(labels, i) \in PublicSuffixes}
    IN  IF hits = {} THEN [err |-> TRUE, suffix |-> <<>>]
        ELSE [err |-> FALSE,
              suffix |-> joined(labels, CHOOSE i \in hits : \A j \in hits : i <= j)]

(***************************************************************************)
(* WillingToIssue and WillingToIssueWildcard                               *)
(***************************************************************************)

AcmeIdentifier(type, value) == [Type |-> type, Value |-> value]

\* the body of WillingToIssue's loop for one label
labelErr(label) ==
    IF Len(label) < 1 THEN errLabelTooShort
    ELSE IF Len(label) > maxLabelLength THEN errLabelTooLong
    ELSE IF ~dnsLabelRegexp(label) THEN errInvalidDNSCharacter
    ELSE IF label[Len(label)] = "-" THEN errInvalidDNSCharacter
    ELSE IF punycodeRegexp(label)
    THEN LET u == ToUnicode(label)
         IN  IF ~u.ok THEN errMalformedIDN
             ELSE IF ~IsNormalString(u.runes) THEN errMalformedIDN
             ELSE Nil
    ELSE IF idnReservedRegexp(label) THEN errInvalidRLDH
    ELSE Nil

\* WillingToIssue's loop over the labels, from label i on: the error of the
\* first label that has one
RECURSIVE labelsErr(_, _)
labelsErr(labels, i) ==
    IF i > Len(labels) THEN Nil
    ELSE IF labelErr(labels[i]) # Nil THEN labelErr(labels[i])
    ELSE labelsErr(labels, i + 1)

\* a slip: the length of the name tested before its characters
syntaxErrLengthFirst(id) ==
    LET domain == id.Value
        labels == Split(domain, ".")
        icannTLD == ExtractSuffix(domain)
    IN  IF id.Type # IdentifierDNS THEN errInvalidIdentifier
        ELSE IF domain = <<>> THEN errEmptyName
        ELSE IF HasPrefix(domain, <<"*", ".">>) THEN errWildcardNotSupported
        ELSE IF Len(domain) > maxDNSIdentifierLength THEN errNameTooLong
        ELSE IF \E i \in 1..Len(domain) : ~isDNSCharacter(domain[i])
        THEN errInvalidDNSCharacter
        ELSE IF ParseIP(domain) THEN errIPAddress
        ELSE IF HasSuffix(domain, <<".">>) THEN errNameEndsInDot
        ELSE IF Len(labels) > maxLabels THEN errTooManyLabels
        ELSE IF Len(labels) < 2 THEN errTooFewLabels
        ELSE IF labelsErr(labels, 1) # Nil THEN labelsErr(labels, 1)
        ELSE IF icannTLD.err THEN errNonPublic
        ELSE IF icannTLD.suffix = domain THEN errICANNTLD
        ELSE Nil

\* WillingToIssue up to the blacklist lookup (lines 220-298): the error it
\* returns before it reads the stores, or Nil
syntaxErr(id) ==
    LET domain == id.Value
        labels == Split(domain, ".")
        icannTLD == ExtractSuffix(domain)
    IN  IF id.Type # IdentifierDNS THEN errInvalidIdentifier
        ELSE IF domain = <<>> THEN errEmptyName
        ELSE IF HasPrefix(domain, <<"*", ".">>) THEN errWildcardNotSupported
        ELSE IF \E i \in 1..Len(domain) : ~isDNSCharacter(domain[i])
        THEN errInvalidDNSCharacter
        ELSE IF Len(domain) > maxDNSIdentifierLength THEN errNameTooLong
        ELSE IF ParseIP(domain) THEN errIPAddress
        ELSE IF HasSuffix(domain, <<".">>) THEN errNameEndsInDot
        ELSE IF Len(labels) > maxLabels THEN errTooManyLabels
        ELSE IF Len(labels) < 2 THEN errTooFewLabels
        ELSE IF labelsErr(labels, 1) # Nil THEN labelsErr(labels, 1)
        ELSE IF icannTLD.err THEN errNonPublic
        ELSE IF icannTLD.suffix = domain THEN errICANNTLD
        ELSE Nil

WillingToIssue(pa, id) ==
    IF syntaxErr(id) # Nil THEN syntaxErr(id)
    ELSE checkHostLists(pa, id.Value)

\* a slip: the base domain itself handed on, no label in place of the "*"
substitutedNothing(baseDomain) == baseDomain

\* the name WillingToIssueWildcard hands to WillingToIssue for "*." + baseDomain
substituted(baseDomain) == <<"x", ".">> \o baseDomain

\* a slip: the wildcard blacklist looked up before the public suffix
WillingToIssueWildcardListFirst(pa, ident) ==
    LET rawDomain == ident.Value
        baseDomain == TrimPrefix(rawDomain, <<"*", ".">>)
        icannTLD == ExtractSuffix(baseDomain)
    IN  IF ident.Type # IdentifierDNS THEN errInvalidIdentifier
        ELSE IF Count(rawDomain, "*") > 1 THEN errTooManyWildcards
        ELSE IF Count(rawDomain, "*") = 1
        THEN IF ~HasPrefix(rawDomain, <<"*", ".">>) THEN errMalformedWildcard
             ELSE IF checkWildcardHostList(pa, baseDomain) # Nil
             THEN checkWildcardHostList(pa, baseDomain)
             ELSE IF icannTLD.err THEN errNonPublic
             ELSE IF baseDomain = icannTLD.suffix THEN errICANNTLDWildcard
             ELSE WillingToIssue(pa, AcmeIdentifier(IdentifierDNS, substituted(baseDomain)))
        ELSE WillingToIssue(pa, ident)

WillingToIssueWildcard(pa, ident) ==
    LET rawDomain == ident.Value
        baseDomain == TrimPrefix(rawDomain, <<"*", ".">>)
        icannTLD == ExtractSuffix(baseDomain)
    IN  IF ident.Type # IdentifierDNS THEN errInvalidIdentifier
        ELSE IF Count(rawDomain, "*") > 1 THEN errTooManyWildcards
        ELSE IF Count(rawDomain, "*") = 1
        THEN IF ~HasPrefix(rawDomain, <<"*", ".">>) THEN errMalformedWildcard
             ELSE IF icannTLD.err THEN errNonPublic
             ELSE IF baseDomain = icannTLD.suffix THEN errICANNTLDWildcard
             ELSE IF checkWildcardHostList(pa, baseDomain) # Nil
             THEN checkWildcardHostList(pa, baseDomain)
             ELSE WillingToIssue(pa, AcmeIdentifier(IdentifierDNS, substituted(baseDomain)))
        ELSE WillingToIssue(pa, ident)

(***************************************************************************)
(* Inputs                                                                  *)
(***************************************************************************)

\* how many labels are put in front of a base domain: D, sub.D, a.sub.D
MaxSub == 2
\* the longest Blacklist and ExactBlacklist list of a policy file
MaxList == 2

la == <<"a">>
lx == <<"x">>
lex == <<"e", "x">>
lmyex == <<"m", "y", "e", "x">>
lcom == <<"c", "o", "m">>
luk == <<"u", "k">>
llan == <<"l", "a", "n">>
lco == <<"c", "o">>

ex_com == Dot(lex, lcom)
myex_com == Dot(lmyex, lcom)
co_uk == Dot(lco, luk)
ex_lan == Dot(lex, llan)
a_ex_com == Dot(la, ex_com)
x_ex_com == Dot(lx, ex_com)
x_a_ex_com == Dot(lx, a_ex_com)

SubLabels == {la, lx}

BaseDomains == {ex_com, myex_com, co_uk, ex_lan}

\* the base domains with exactly n labels of SubLabels in front
RECURSIVE Sub(_)
Sub(n) == IF n = 0 THEN BaseDomains ELSE {Dot(l, d) : l \in SubLabels, d \in Sub(n - 1)}

Names == UNION {Sub(n) : n \in 0..MaxSub}

\* names that fail one or several of WillingToIssue's syntax checks, and
\* three punycode labels: xn--9ca decodes to U+00E9, xn--e-xbb to e followed
\* by U+0301 (not in NFC), xn--0 does not decode
l57 == Rep("a", 57)
l64 == Rep("a", 64)
lrldh == <<"a", "b", "-", "-", "c">>
ldash == <<"a", "-">>
lpunyOK == <<"x", "n", "-", "-", "9", "c", "a">>
lpunyNFC == <<"x", "n", "-", "-", "e", "-", "x", "b", "b">>
lpunyBad == <<"x", "n", "-", "-", "0">>
ip4 == <<"1", ".", "2", ".", "3", ".", "4">>
long231 == Dot(l57, Dot(l57, Dot(l57, Dot(Rep("a", 53), lcom))))
labels11 == Join([i \in 1..10 |-> la] \o <<lcom>>, ".")

SyntaxCases ==
    { <<>>,
      Dot(<<"a", "_", "b">>, lcom),
      long231,
      Dot(<<"a", "_">>, long231),
      ip4,
      ip4 \o <<".">>,
      ex_com \o <<".">>,
      Dot(<<"a", "_">>, ex_com) \o <<".">>,
      labels11,
      Dot(ldash, labels11),
      lcom,
      Dot(la, Dot(<<>>, lcom)),
      Dot(l64, lcom),
      Dot(<<"-", "a">>, lcom),
      Dot(ldash, lcom),
      Dot(<<"A">>, lcom),
      Dot(<<"A">>, ex_com),
      Dot(lpunyOK, lcom),
      Dot(lpunyNFC, lcom),
      Dot(lpunyBad, lcom),
      Dot(lrldh, lcom),
      Dot(lrldh, Dot(ldash, lcom)),
      Dot(ldash, Dot(lrldh, lcom)),
      Dot(lpunyBad, Dot(ldash, lcom)),
      Dot(ldash, llan),
      Dot(lrldh, llan),
      Dot(ldash, ex_com),
      Dot(lrldh, ex_com) }

Star == <<"*", ".">>

WildcardCases ==
    { <<"*">>,
      Star,
      Star \o lcom,
      Star \o Star \o ex_com,
      Dot(la, Star \o lcom),
      <<"*", "a", ".">> \o ex_com,
      ex_com \o <<".", "*">>,
      Star \o Dot(ldash, lcom),
      Star \o ex_com \o <<".">>,
      Star \o Dot(<<"a", "_">>, lcom) }

\* identifiers handed to WillingToIssue
IssueIdentifiers ==
    {AcmeIdentifier(IdentifierDNS, v) : v \in Names \cup SyntaxCases \cup {Star \o ex_com}}
        \cup {AcmeIdentifier("ip", v) : v \in {ex_com, ip4, <<>>}}

\* identifiers handed to WillingToIssueWildcard
WildcardIdentifiers ==
    {AcmeIdentifier(IdentifierDNS, v) :
        v \in {Star \o n : n \in Names} \cup Names \cup WildcardCases}
        \cup {AcmeIdentifier("ip", v) : v \in {Star \o ex_com, Star \o Star \o ex_com}}

\* domains handed to checkHostLists and checkWildcardHostList directly
CheckDomains == Names \cup {lcom}

SeqsUpTo(S, n) == UNION {[1..k -> S] : k \in 0..n}

BlacklistEntries == {ex_com, x_a_ex_com}

\* "com" is an entry with only one label
ExactBlacklistEntries == {ex_com, a_ex_com, lcom}

PolicyFiles ==
    {BadJSON} \cup
    {BlacklistJSON(b, e) : b \in SeqsUpTo(BlacklistEntries, MaxList),
                           e \in SeqsUpTo(ExactBlacklistEntries, MaxList)}

WhitelistFiles ==
    { BadWhitelistJSON,
      WhitelistJSON(<<>>),
      WhitelistJSON([k \in {"dns-01"} |-> <<1, 1>>]) }

\* Inputs of the challenge operations
MaxRegID == 2

RegIDs == 1..MaxRegID

ChallengeTypes ==
    {ChallengeTypeHTTP01, ChallengeTypeTLSSNI01, ChallengeTypeTLSALPN01, ChallengeTypeDNS01}

\* the maps New may be given
ChallengeMaps == {MakeMap(S) : S \in SUBSET ChallengeTypes}

ChalWhitelistFiles ==
    WhitelistFiles \cup
    { WhitelistJSON([k \in {ChallengeTypeDNS01} |-> <<>>]),
      WhitelistJSON([k \in {ChallengeTypeHTTP01, ChallengeTypeTLSSNI01} |->
                        IF k = ChallengeTypeHTTP01 THEN <<1>> ELSE <<2>>]) }

ChalIdentifiers ==
    { AcmeIdentifier(IdentifierDNS, ex_com), AcmeIdentifier(IdentifierDNS, Star \o ex_com) }

\* a few hostname policy files and names for the runs that select challenges
ChalPolicyFiles ==
    { BadJSON,
      BlacklistJSON(<<>>, <<ex_com>>),
      BlacklistJSON(<<ex_com>>, <<a_ex_com>>),
      BlacklistJSON(<<x_a_ex_com>>, <<>>) }

ChalIssueIdentifiers ==
    { AcmeIdentifier(IdentifierDNS, ex_com), AcmeIdentifier(IdentifierDNS, a_ex_com) }

(***************************************************************************)
(* State                                                                   *)
(***************************************************************************)

\* the goroutines of the concurrent specification
Procs == {"g1", "g2"}

VARIABLES
    blacklist,                  \* pa.blacklist
    exactBlacklist,             \* pa.exactBlacklist
    wildcardExactBlacklist,     \* pa.wildcardExactBlacklist
    enabledChallengesWhitelist, \* pa.enabledChallengesWhitelist
    enabledChallenges,          \* pa.enabledChallenges
    pseudoRNG,                  \* pa.pseudoRNG: the state of the generator
    rngMu,                      \* pa.rngMu: the goroutine holding the Mutex, or "free"
    TLSSNIRevalidation,         \* features.Enabled(features.TLSSNIRevalidation)
    blacklistMu,                \* pa.blacklistMu: who holds the RWMutex
    ret,                        \* what the operation just called has returned
    pc,                         \* where each goroutine is in its operation
    frame,                      \* each goroutine's arguments and local variables
    origin,                     \* history: the set of maps each store was assigned with
    loaded                      \* history: some loadHostnamePolicy has returned nil

storeVars == <<blacklist, exactBlacklist, wildcardExactBlacklist, origin>>

procVars == <<blacklistMu, pc, frame>>

chalVars == <<enabledChallenges, pseudoRNG, rngMu, TLSSNIRevalidation>>

vars == <<blacklist, exactBlacklist, wildcardExactBlacklist, enabledChallengesWhitelist,
          enabledChallenges, pseudoRNG, rngMu, TLSSNIRevalidation,
          blacklistMu, ret, pc, frame, origin, loaded>>

\* the stores as they are now
pa == Stores(blacklist, exactBlacklist, wildcardExactBlacklist)

\* what ChallengeTypeEnabled and ChallengesFor read, as it is now
chal == [enabledChallenges |-> enabledChallenges,
         enabledChallengesWhitelist |-> enabledChallengesWhitelist,
         pseudoRNG |-> pseudoRNG,
         TLSSNIRevalidation |-> TLSSNIRevalidation]

NoCall == [op |-> "none", arg |-> <<>>, err |-> Nil]

Returned(op, arg, err) == [op |-> op, arg |-> arg, err |-> err]

\* the origin of a store no load has assigned yet; the origin of a store a
\* load has assigned is the three maps that load had built
NoLoad == Stores(NilMap, NilMap, NilMap)

\* a goroutine's locals: the argument of its call, the maps a load has built,
\* the loop index of checkHostLists, the error about to be returned, and
\* (history) the origins of the stores it has read under its read lock.
\* For a WillingToIssueWildcard call: call names it, id is its identifier,
\* and (history) wseen is the origins of the stores read during the call.
\* For a ChallengesFor call: challenges and combinations are its slices,
\* (history) wlseen is the allow-lists its ChallengeTypeEnabled calls have
\* read, and (history) cut says that another goroutine has drawn from the
\* generator between the two draws of this call.  For a
\* WillingToIssueWildcard call, issue is what the name-only checks of the
\* WillingToIssue it ends with will find; for checkHostLists, labels is its
\* local of that name.
NoFrame == [arg |-> <<>>, new |-> NoLoad, i |-> 0, err |-> Nil, seen |-> {},
            call |-> "", id |-> <<>>, wseen |-> {},
            challenges |-> <<>>, combinations |-> <<>>, wlseen |-> {}, cut |-> FALSE,
            issue |-> Nil, labels |-> <<>>]

\* New(challengeTypes): the maps are nil until the first load, the mutexes
\* are free, the generator is seeded with 99; the feature flag is as the
\* process was configured
New(challengeTypes, flag) ==
    /\ blacklist = NilMap
    /\ exactBlacklist = NilMap
    /\ wildcardExactBlacklist = NilMap
    /\ enabledChallengesWhitelist = NilWhitelist
    /\ enabledChallenges = challengeTypes
    /\ pseudoRNG = NewSource(RngSeed)
    /\ rngMu = "free"
    /\ TLSSNIRevalidation = flag
    /\ blacklistMu = [writer |-> FALSE, pending |-> FALSE, readers |-> 0]
    /\ ret = NoCall
    /\ pc = [p \in Procs |-> "idle"]
    /\ frame = [p \in Procs |-> NoFrame]
    /\ origin = Stores(NoLoad, NoLoad, NoLoad)
    /\ loaded = FALSE

\* an authority with HTTP-01 and DNS-01 enabled
Init == New(MakeMap({ChallengeTypeHTTP01, ChallengeTypeDNS01}), FALSE)

(***************************************************************************)
(* Sequential specification: one caller, each operation run as a whole,    *)
(* the caller then taking its result                                       *)
(***************************************************************************)

LoadHostnamePolicyCall(b) ==
    LET r == loadHostnamePolicy(pa, b)
    IN  /\ ret = NoCall
        /\ blacklist' = r.pa.blacklist
        /\ exactBlacklist' = r.pa.exactBlacklist
        /\ wildcardExactBlacklist' = r.pa.wildcardExactBlacklist
        /\ origin' = IF r.err = Nil THEN Stores(r.pa, r.pa, r.pa) ELSE origin
        /\ loaded' = (loaded \/ r.err = Nil)
        /\ ret' = Returned("loadHostnamePolicy", b, r.err)
        /\ UNCHANGED <<enabledChallengesWhitelist, chalVars, procVars>>

LoadChallengesWhitelistCall(b) ==
    LET r == loadChallengesWhitelist(enabledChallengesWhitelist, b)
    IN  /\ ret = NoCall
        /\ enabledChallengesWhitelist' = r.wl
        /\ ret' = Returned("loadChallengesWhitelist", b, r.err)
        /\ UNCHANGED <<storeVars, chalVars, procVars, loaded>>

WillingToIssueCall(id) ==
    /\ ret = NoCall
    /\ ret' = Returned("WillingToIssue", id, WillingToIssue(pa, id))
    /\ UNCHANGED <<storeVars, enabledChallengesWhitelist, chalVars, procVars, loaded>>

WillingToIssueWildcardCall(id) ==
    /\ ret = NoCall
    /\ ret' = Returned("WillingToIssueWildcard", id, WillingToIssueWildcard(pa, id))
    /\ UNCHANGED <<storeVars, enabledChallengesWhitelist, chalVars, procVars, loaded>>

CheckHostListsCall(domain) ==
    /\ ret = NoCall
    /\ ret' = Returned("checkHostLists", domain, checkHostLists(pa, domain))
    /\ UNCHANGED <<storeVars, enabledChallengesWhitelist, chalVars, procVars, loaded>>

CheckWildcardHostListCall(domain) ==
    /\ ret = NoCall
    /\ ret' = Returned("checkWildcardHostList", domain, checkWildcardHostList(pa, domain))
    /\ UNCHANGED <<storeVars, enabledChallengesWhitelist, chalVars, procVars, loaded>>

\* the caller has its result and may call again
Return ==
    /\ ret # NoCall
    /\ ret' = NoCall
    /\ UNCHANGED <<storeVars, enabledChallengesWhitelist, chalVars, procVars, loaded>>

Next ==
    \/ \E b \in PolicyFiles : LoadHostnamePolicyCall(b)
    \/ \E b \in WhitelistFiles : LoadChallengesWhitelistCall(b)
    \/ \E id \in IssueIdentifiers : WillingToIssueCall(id)
    \/ \E id \in WildcardIdentifiers : WillingToIssueWildcardCall(id)
    \/ \E domain \in CheckDomains : CheckHostListsCall(domain)
    \/ \E domain \in CheckDomains : CheckWildcardHostListCall(domain)
    \/ Return

Spec == Init /\ [][Next]_vars

(***************************************************************************)
(* Sequential specification of challenge selection: an authority made     *)
(* with any map of challenge types, one caller, every operation            *)
(***************************************************************************)

ChalInit == \E ct \in ChallengeMaps, flag \in BOOLEAN : New(ct, flag)

ReturnedVal(op, arg, err, val) == [op |-> op, arg |-> arg, err |-> err, val |-> val]

ChallengeTypeEnabledCall(t, regID) ==
    /\ ret = NoCall
    /\ ret' = ReturnedVal("ChallengeTypeEnabled", <<t, regID>>, Nil,
                          ChallengeTypeEnabled(chal, t, regID))
    /\ UNCHANGED <<storeVars, enabledChallengesWhitelist, chalVars, procVars, loaded>>

\* rngMu is locked and unlocked within the call
ChallengesForCall(identifier, regID, revalidation) ==
    LET r == ChallengesFor(chal, identifier, regID, revalidation)
    IN  /\ ret = NoCall
        /\ pseudoRNG' = r.pseudoRNG
        /\ ret' = ReturnedVal("ChallengesFor", <<identifier, regID, revalidation>>, r.err,
                              [challenges |-> r.challenges, combinations |-> r.combinations])
        /\ UNCHANGED <<storeVars, enabledChallengesWhitelist, enabledChallenges, rngMu,
                       TLSSNIRevalidation, procVars, loaded>>

ChalNext ==
    \/ \E t \in ChallengeTypes, regID \in RegIDs : ChallengeTypeEnabledCall(t, regID)
    \/ \E identifier \in ChalIdentifiers, regID \in RegIDs, revalidation \in BOOLEAN :
            ChallengesForCall(identifier, regID, revalidation)
    \/ \E b \in ChalWhitelistFiles : LoadChallengesWhitelistCall(b)
    \/ \E b \in ChalPolicyFiles : LoadHostnamePolicyCall(b)
    \/ \E id \in ChalIssueIdentifiers : WillingToIssueCall(id)
    \/ WillingToIssueWildcardCall(AcmeIdentifier(IdentifierDNS, Star \o ex_com))
    \/ Return

ChalSpec == ChalInit /\ [][ChalNext]_vars

(***************************************************************************)
(* Concurrent specification: goroutines run loadHostnamePolicy,            *)
(* checkHostLists and checkWildcardHostList statement by statement, each   *)
(* read and each assignment of a store a step of its own                   *)
(***************************************************************************)

\* the policy files and domains of the concurrent specification
ConcFiles ==
    { BlacklistJSON(<<ex_com>>, <<a_ex_com>>),
      BlacklistJSON(<<x_ex_com>>, <<ex_com>>),
      BlacklistJSON(<<ex_com>>, <<lcom>>),
      BlacklistJSON(<<x_a_ex_com>>, <<a_ex_com>>),
      BlacklistJSON(<<>>, <<ex_com>>) }

ConcDomains == {ex_com, a_ex_com}

\* sync.RWMutex: Lock first takes the mutex that lets one writer in at a time
CanAnnounce(mu) == ~mu.writer /\ ~mu.pending

\* sync.RWMutex: Lock waits for the writer and every reader to be gone
CanLock(mu) == ~mu.writer /\ mu.readers = 0

\* a reader that does not wait for the writer
CanRLockAlways(mu) == TRUE

\* sync.RWMutex: RLock waits while a writer holds the mutex or waits for it
CanRLock(mu) == ~mu.writer /\ ~mu.pending

\* loadHostnamePolicy, lines 70-105: unmarshal and build the maps, no lock held
LoadBuild(p, b) ==
    LET r == buildMaps(b)
    IN  /\ pc[p] = "idle"
        /\ pc' = [pc EXCEPT ![p] = IF r.err # Nil THEN "load_return" ELSE "load_lock"]
        /\ frame' = [frame EXCEPT ![p] =
                        [NoFrame EXCEPT !.arg = b, !.err = r.err,
                            !.new = Stores(MakeMap(r.nameMap), MakeMap(r.exactNameMap),
                                           MakeMap(r.wildcardNameMap))]]
        /\ UNCHANGED <<storeVars, enabledChallengesWhitelist, chalVars, blacklistMu, ret, loaded>>

\* line 106: pa.blacklistMu.Lock(): the writer makes itself known, which
\* keeps new readers out, and goes on once the readers inside have left
LoadLock(p) ==
    /\ \/ /\ pc[p] = "load_lock"
          /\ CanAnnounce(blacklistMu)
          /\ blacklistMu' = [blacklistMu EXCEPT !.pending = TRUE]
          /\ pc' = [pc EXCEPT ![p] = "load_wait"]
       \/ /\ pc[p] = "load_wait"
          /\ CanLock(blacklistMu)
          /\ blacklistMu' = [blacklistMu EXCEPT !.pending = FALSE, !.writer = TRUE]
          /\ pc' = [pc EXCEPT ![p] = "load_blacklist"]
    /\ UNCHANGED <<storeVars, enabledChallengesWhitelist, chalVars, ret, frame, loaded>>

\* line 107: pa.blacklist = nameMap
LoadAssignBlacklist(p) ==
    /\ pc[p] = "load_blacklist"
    /\ blacklist' = frame[p].new.blacklist
    /\ origin' = [origin EXCEPT !.blacklist = frame[p].new]
    /\ pc' = [pc EXCEPT ![p] = "load_exact"]
    /\ UNCHANGED <<exactBlacklist, wildcardExactBlacklist, enabledChallengesWhitelist, chalVars,
                   blacklistMu, ret, frame, loaded>>

\* line 108: pa.exactBlacklist = exactNameMap
LoadAssignExact(p) ==
    /\ pc[p] = "load_exact"
    /\ exactBlacklist' = frame[p].new.exactBlacklist
    /\ origin' = [origin EXCEPT !.exactBlacklist = frame[p].new]
    /\ pc' = [pc EXCEPT ![p] = "load_wildcard"]
    /\ UNCHANGED <<blacklist, wildcardExactBlacklist, enabledChallengesWhitelist, chalVars,
                   blacklistMu, ret, frame, loaded>>

\* line 109: pa.wildcardExactBlacklist = wildcardNameMap
LoadAssignWildcard(p) ==
    /\ pc[p] = "load_wildcard"
    /\ wildcardExactBlacklist' = frame[p].new.wildcardExactBlacklist
    /\ origin' = [origin EXCEPT !.wildcardExactBlacklist = frame[p].new]
    /\ pc' = [pc EXCEPT ![p] = "load_unlock"]
    /\ UNCHANGED <<blacklist, exactBlacklist, enabledChallengesWhitelist, chalVars,
                   blacklistMu, ret, frame, loaded>>

\* line 110: pa.blacklistMu.Unlock()
LoadUnlock(p) ==
    /\ pc[p] = "load_unlock"
    /\ blacklistMu' = [blacklistMu EXCEPT !.writer = FALSE]
    /\ pc' = [pc EXCEPT ![p] = "load_return"]
    /\ UNCHANGED <<storeVars, enabledChallengesWhitelist, chalVars, ret, frame, loaded>>

\* loadHostnamePolicy returns its error (lines 75, 78, 99) or nil (line 111)
LoadReturn(p) ==
    /\ pc[p] = "load_return"
    /\ loaded' = (loaded \/ frame[p].err = Nil)
    /\ pc' = [pc EXCEPT ![p] = "idle"]
    /\ frame' = [frame EXCEPT ![p] = NoFrame]
    /\ UNCHANGED <<storeVars, enabledChallengesWhitelist, chalVars, blacklistMu, ret>>

\* checkHostLists, line 395: pa.blacklistMu.RLock()
ChlRLock(p, domain) ==
    /\ pc[p] = "idle"
    /\ CanRLock(blacklistMu)
    /\ blacklistMu' = [blacklistMu EXCEPT !.readers = @ + 1]
    /\ pc' = [pc EXCEPT ![p] = "chl_nil"]
    /\ frame' = [frame EXCEPT ![p] = [NoFrame EXCEPT !.arg = domain]]
    /\ UNCHANGED <<storeVars, enabledChallengesWhitelist, chalVars, ret, loaded>>

\* lines 398-402: if pa.blacklist == nil, and labels := strings.Split(domain, ".")
ChlNil(p) ==
    /\ pc[p] = "chl_nil"
    /\ pc' = [pc EXCEPT ![p] = IF blacklist.nil THEN "chl_runlock" ELSE "chl_loop"]
    /\ frame' = [frame EXCEPT ![p].seen = @ \cup {origin.blacklist},
                              ![p].labels = IF blacklist.nil THEN <<>>
                                            ELSE Split(frame[p].arg, "."),
                              ![p].i = 1,
                              ![p].err = IF blacklist.nil THEN errNotLoaded ELSE Nil]
    /\ UNCHANGED <<storeVars, enabledChallengesWhitelist, chalVars, blacklistMu, ret, loaded>>

\* lines 403-408: one turn of the loop over the label suffixes, or its end
ChlLoop(p) ==
    LET labels == frame[p].labels
        i == frame[p].i
        hit == Lookup(blacklist, joined(labels, i))
    IN  /\ pc[p] = "chl_loop"
        /\ IF i > Len(labels)
           THEN /\ pc' = [pc EXCEPT ![p] = "chl_exact"]
                /\ frame' = frame
           ELSE /\ pc' = [pc EXCEPT ![p] = IF hit THEN "chl_runlock" ELSE "chl_loop"]
                /\ frame' = [frame EXCEPT ![p].seen = @ \cup {origin.blacklist},
                                          ![p].i = i + 1,
                                          ![p].err = IF hit THEN errBlacklisted ELSE Nil]
        /\ UNCHANGED <<storeVars, enabledChallengesWhitelist, chalVars, blacklistMu, ret, loaded>>

\* lines 410-413: if pa.exactBlacklist[domain]
ChlExact(p) ==
    /\ pc[p] = "chl_exact"
    /\ pc' = [pc EXCEPT ![p] = "chl_runlock"]
    /\ frame' = [frame EXCEPT ![p].seen = @ \cup {origin.exactBlacklist},
                              ![p].err = IF Lookup(exactBlacklist, frame[p].arg)
                                         THEN errBlacklisted ELSE Nil]
    /\ UNCHANGED <<storeVars, enabledChallengesWhitelist, chalVars, blacklistMu, ret, loaded>>

\* line 396, deferred: pa.blacklistMu.RUnlock(), and the return
ChlRUnlock(p) ==
    /\ pc[p] = "chl_runlock"
    /\ blacklistMu' = [blacklistMu EXCEPT !.readers = @ - 1]
    /\ IF frame[p].call = "WillingToIssueWildcard"
       THEN /\ pc' = [pc EXCEPT ![p] = "wtiw_return"]
            /\ frame' = [frame EXCEPT ![p].wseen = @ \cup frame[p].seen, ![p].seen = {}]
       ELSE /\ pc' = [pc EXCEPT ![p] = "idle"]
            /\ frame' = [frame EXCEPT ![p] = NoFrame]
    /\ UNCHANGED <<storeVars, enabledChallengesWhitelist, chalVars, ret, loaded>>

\* checkWildcardHostList, line 380: pa.blacklistMu.RLock()
CwRLock(p, domain) ==
    /\ pc[p] = "idle"
    /\ CanRLock(blacklistMu)
    /\ blacklistMu' = [blacklistMu EXCEPT !.readers = @ + 1]
    /\ pc' = [pc EXCEPT ![p] = "cw_nil"]
    /\ frame' = [frame EXCEPT ![p] = [NoFrame EXCEPT !.arg = domain]]
    /\ UNCHANGED <<storeVars, enabledChallengesWhitelist, chalVars, ret, loaded>>

\* line 383: if pa.blacklist == nil
CwNil(p) ==
    /\ pc[p] = "cw_nil"
    /\ pc' = [pc EXCEPT ![p] = IF blacklist.nil THEN "cw_runlock" ELSE "cw_lookup"]
    /\ frame' = [frame EXCEPT ![p].seen = @ \cup {origin.blacklist},
                              ![p].err = IF blacklist.nil THEN errNotLoaded ELSE Nil]
    /\ UNCHANGED <<storeVars, enabledChallengesWhitelist, chalVars, blacklistMu, ret, loaded>>

\* lines 387-391: if pa.wildcardExactBlacklist[domain]
CwLookup(p) ==
    /\ pc[p] = "cw_lookup"
    /\ pc' = [pc EXCEPT ![p] = "cw_runlock"]
    /\ frame' = [frame EXCEPT ![p].seen = @ \cup {origin.wildcardExactBlacklist},
                              ![p].err = IF Lookup(wildcardExactBlacklist, frame[p].arg)
                                         THEN errBlacklisted ELSE Nil]
    /\ UNCHANGED <<storeVars, enabledChallengesWhitelist, chalVars, blacklistMu, ret, loaded>>

\* line 381, deferred: pa.blacklistMu.RUnlock(), and the return
CwRUnlock(p) ==
    /\ pc[p] = "cw_runlock"
    /\ blacklistMu' = [blacklistMu EXCEPT !.readers = @ - 1]
    /\ IF frame[p].call = "WillingToIssueWildcard"
       THEN /\ pc' = [pc EXCEPT ![p] = IF frame[p].err # Nil THEN "wtiw_return"
                                                             ELSE "wtiw_issue"]
            /\ frame' = [frame EXCEPT ![p].wseen = @ \cup frame[p].seen, ![p].seen = {}]
       ELSE /\ pc' = [pc EXCEPT ![p] = "idle"]
            /\ frame' = [frame EXCEPT ![p] = NoFrame]
    /\ UNCHANGED <<storeVars, enabledChallengesWhitelist, chalVars, ret, loaded>>

\* WillingToIssueWildcard, lines 321-365, for an identifier with one "*":
\* the checks before checkWildcardHostList read none of the stores
wildcardSyntaxErr(ident) ==
    LET rawDomain == ident.Value
        baseDomain == TrimPrefix(rawDomain, <<"*", ".">>)
        icannTLD == ExtractSuffix(baseDomain)
    IN  IF ident.Type # IdentifierDNS THEN errInvalidIdentifier
        ELSE IF Count(rawDomain, "*") > 1 THEN errTooManyWildcards
        ELSE IF ~HasPrefix(rawDomain, <<"*", ".">>) THEN errMalformedWildcard
        ELSE IF icannTLD.err THEN errNonPublic
        ELSE IF baseDomain = icannTLD.suffix THEN errICANNTLDWildcard
        ELSE Nil

\* lines 367-370 and 219-312: what the checks of WillingToIssue that come
\* before its checkHostLists find in the substituted name; they read nothing
\* but the name, so the outcome is fixed when the call begins
issueSyntaxErr(ident) ==
    LET base == TrimPrefix(ident.Value, <<"*", ".">>)
    IN  syntaxErr(AcmeIdentifier(IdentifierDNS, substituted(base)))

WtiwStart(p, ident) ==
    /\ pc[p] = "idle"
    /\ pc' = [pc EXCEPT ![p] = IF wildcardSyntaxErr(ident) # Nil THEN "wtiw_return"
                                                                 ELSE "wtiw_wildcard"]
    /\ frame' = [frame EXCEPT ![p] =
                    [NoFrame EXCEPT !.call = "WillingToIssueWildcard", !.id = ident,
                                    !.err = wildcardSyntaxErr(ident),
                                    !.issue = issueSyntaxErr(ident)]]
    /\ UNCHANGED <<storeVars, enabledChallengesWhitelist, chalVars, blacklistMu, ret, loaded>>

\* line 366: checkWildcardHostList(baseDomain), up to its RLock
WtiwCwRLock(p) ==
    /\ pc[p] = "wtiw_wildcard"
    /\ CanRLock(blacklistMu)
    /\ blacklistMu' = [blacklistMu EXCEPT !.readers = @ + 1]
    /\ pc' = [pc EXCEPT ![p] = "cw_nil"]
    /\ frame' = [frame EXCEPT ![p].arg = TrimPrefix(frame[p].id.Value, <<"*", ".">>)]
    /\ UNCHANGED <<storeVars, enabledChallengesWhitelist, chalVars, ret, loaded>>

\* lines 367-370: WillingToIssue on the substituted name, up to the RLock of
\* its checkHostLists, or to its return when the name fails a syntax check
WtiwIssue(p) ==
    LET base == TrimPrefix(frame[p].id.Value, <<"*", ".">>)
    IN  /\ pc[p] = "wtiw_issue"
        /\ IF frame[p].issue # Nil
           THEN /\ pc' = [pc EXCEPT ![p] = "wtiw_return"]
                /\ frame' = [frame EXCEPT ![p].err = frame[p].issue]
                /\ UNCHANGED blacklistMu
           ELSE /\ CanRLock(blacklistMu)
                /\ blacklistMu' = [blacklistMu EXCEPT !.readers = @ + 1]
                /\ pc' = [pc EXCEPT ![p] = "chl_nil"]
                /\ frame' = [frame EXCEPT ![p].arg = substituted(base)]
        /\ UNCHANGED <<storeVars, enabledChallengesWhitelist, chalVars, ret, loaded>>

\* WillingToIssueWildcard returns
WtiwReturn(p) ==
    /\ pc[p] = "wtiw_return"
    /\ pc' = [pc EXCEPT ![p] = "idle"]
    /\ frame' = [frame EXCEPT ![p] = NoFrame]
    /\ UNCHANGED <<storeVars, enabledChallengesWhitelist, chalVars, blacklistMu, ret, loaded>>

\* the wildcard identifiers of the concurrent runs
ConcWildcards ==
    { AcmeIdentifier(IdentifierDNS, Star \o ex_com),
      AcmeIdentifier(IdentifierDNS, Star \o lcom) }

ConcNext ==
    \E p \in Procs :
        \/ \E b \in ConcFiles : LoadBuild(p, b)
        \/ LoadLock(p)
        \/ LoadAssignBlacklist(p)
        \/ LoadAssignExact(p)
        \/ LoadAssignWildcard(p)
        \/ LoadUnlock(p)
        \/ LoadReturn(p)
        \/ \E domain \in ConcDomains : ChlRLock(p, domain)
        \/ ChlNil(p)
        \/ ChlLoop(p)
        \/ ChlExact(p)
        \/ ChlRUnlock(p)
        \/ \E domain \in ConcDomains : CwRLock(p, domain)
        \/ CwNil(p)
        \/ CwLookup(p)
        \/ CwRUnlock(p)
        \/ \E ident \in ConcWildcards : WtiwStart(p, ident)
        \/ WtiwCwRLock(p)
        \/ WtiwIssue(p)
        \/ WtiwReturn(p)

ConcSpec == Init /\ [][ConcNext]_vars

(***************************************************************************)
(* Concurrent specification of challenge selection: goroutines run         *)
(* ChallengesFor, ChallengeTypeEnabled and loadChallengesWhitelist          *)
(* statement by statement                                                  *)
(***************************************************************************)

\* what these steps leave alone
hostVars == <<storeVars, enabledChallenges, TLSSNIRevalidation, ret, loaded>>

ConcWhitelistFiles ==
    { BadWhitelistJSON,
      WhitelistJSON([k \in {ChallengeTypeTLSSNI01} |-> <<1>>]),
      WhitelistJSON([k \in {ChallengeTypeTLSALPN01} |-> <<1>>]) }

ConcChalIdentifiers == ChalIdentifiers

ConcRegIDs == {1}

\* the types in the order ChallengesFor asks for them
TypeOrder ==
    <<ChallengeTypeHTTP01, ChallengeTypeTLSSNI01, ChallengeTypeTLSALPN01, ChallengeTypeDNS01>>

\* sync.Mutex: Lock waits until the mutex is free
CanLockRngAlways(mu) == TRUE

CanLockRng(mu) == mu = "free"

\* loadChallengesWhitelist, lines 126-141: parse and build chalWl
WlBuild(p, b) ==
    LET r == loadChallengesWhitelist(NilWhitelist, b)
    IN  /\ pc[p] = "idle"
        /\ pc' = [pc EXCEPT ![p] = IF r.err # Nil THEN "wl_return" ELSE "wl_lock"]
        /\ frame' = [frame EXCEPT ![p] = [NoFrame EXCEPT !.arg = b, !.err = r.err, !.new = r.wl]]
        /\ UNCHANGED <<hostVars, enabledChallengesWhitelist, pseudoRNG, rngMu, blacklistMu>>

\* line 143: pa.blacklistMu.Lock(), as at line 106
WlLock(p) ==
    /\ \/ /\ pc[p] = "wl_lock"
          /\ CanAnnounce(blacklistMu)
          /\ blacklistMu' = [blacklistMu EXCEPT !.pending = TRUE]
          /\ pc' = [pc EXCEPT ![p] = "wl_wait"]
       \/ /\ pc[p] = "wl_wait"
          /\ CanLock(blacklistMu)
          /\ blacklistMu' = [blacklistMu EXCEPT !.pending = FALSE, !.writer = TRUE]
          /\ pc' = [pc EXCEPT ![p] = "wl_assign"]
    /\ UNCHANGED <<hostVars, enabledChallengesWhitelist, pseudoRNG, rngMu, frame>>

\* line 144: pa.enabledChallengesWhitelist = chalWl
WlAssign(p) ==
    /\ pc[p] = "wl_assign"
    /\ enabledChallengesWhitelist' = frame[p].new
    /\ pc' = [pc EXCEPT ![p] = "wl_unlock"]
    /\ UNCHANGED <<hostVars, pseudoRNG, rngMu, blacklistMu, frame>>

\* line 145: pa.blacklistMu.Unlock()
WlUnlock(p) ==
    /\ pc[p] = "wl_unlock"
    /\ blacklistMu' = [blacklistMu EXCEPT !.writer = FALSE]
    /\ pc' = [pc EXCEPT ![p] = "wl_return"]
    /\ UNCHANGED <<hostVars, enabledChallengesWhitelist, pseudoRNG, rngMu, frame>>

\* loadChallengesWhitelist returns its error (line 131) or nil (line 147)
WlReturn(p) ==
    /\ pc[p] = "wl_return"
    /\ pc' = [pc EXCEPT ![p] = "idle"]
    /\ frame' = [frame EXCEPT ![p] = NoFrame]
    /\ UNCHANGED <<hostVars, enabledChallengesWhitelist, pseudoRNG, rngMu, blacklistMu>>

\* ChallengeTypeEnabled called on its own, line 486: pa.blacklistMu.RLock()
CteRLock(p, t, regID) ==
    /\ pc[p] = "idle"
    /\ CanRLock(blacklistMu)
    /\ blacklistMu' = [blacklistMu EXCEPT !.readers = @ + 1]
    /\ pc' = [pc EXCEPT ![p] = "cte_read"]
    /\ frame' = [frame EXCEPT ![p] = [NoFrame EXCEPT !.call = "ChallengeTypeEnabled",
                                                     !.arg = <<t, regID>>]]
    /\ UNCHANGED <<hostVars, enabledChallengesWhitelist, pseudoRNG, rngMu>>

\* lines 487-489: the value is read, the deferred RUnlock runs, the call returns
CteRead(p) ==
    /\ pc[p] = "cte_read"
    /\ blacklistMu' = [blacklistMu EXCEPT !.readers = @ - 1]
    /\ pc' = [pc EXCEPT ![p] = "idle"]
    /\ frame' = [frame EXCEPT ![p] = NoFrame]
    /\ UNCHANGED <<hostVars, enabledChallengesWhitelist, pseudoRNG, rngMu>>

\* ChallengesFor, lines 420-433: i is the place in TypeOrder of the type
\* asked for next, which for a wildcard is DNS-01
CfStart(p, identifier, regID, revalidation) ==
    /\ pc[p] = "idle"
    /\ pc' = [pc EXCEPT ![p] = "cf_rlock"]
    /\ frame' = [frame EXCEPT ![p] =
                    [NoFrame EXCEPT !.call = "ChallengesFor",
                                    !.arg = <<identifier, regID, revalidation>>,
                                    !.i = IF HasPrefix(identifier.Value, <<"*", ".">>)
                                          THEN 4 ELSE 1]]
    /\ UNCHANGED <<hostVars, enabledChallengesWhitelist, pseudoRNG, rngMu, blacklistMu>>

\* a call of pa.ChallengeTypeEnabled at line 434, 444, 450, 455 or 459, up
\* to its RLock
CfCteRLock(p) ==
    /\ pc[p] = "cf_rlock"
    /\ CanRLock(blacklistMu)
    /\ blacklistMu' = [blacklistMu EXCEPT !.readers = @ + 1]
    /\ pc' = [pc EXCEPT ![p] = "cf_read"]
    /\ UNCHANGED <<hostVars, enabledChallengesWhitelist, pseudoRNG, rngMu, frame>>

\* that call reads, unlocks and returns, and ChallengesFor acts on its value
CfCteRead(p) ==
    LET identifier == frame[p].arg[1]
        regID == frame[p].arg[2]
        revalidation == frame[p].arg[3]
        i == frame[p].i
        t == TypeOrder[i]
        enabled == ChallengeTypeEnabled(chal, t, regID)
        wildcard == HasPrefix(identifier.Value, <<"*", ".">>)
        offer == \/ enabled
                 \/ (~wildcard /\ t = ChallengeTypeTLSSNI01 /\ TLSSNIRevalidation /\ revalidation)
        f == [frame[p] EXCEPT !.wlseen = @ \cup {enabledChallengesWhitelist}]
    IN  /\ pc[p] = "cf_read"
        /\ blacklistMu' = [blacklistMu EXCEPT !.readers = @ - 1]
        /\ IF wildcard /\ ~enabled
           THEN /\ pc' = [pc EXCEPT ![p] = "cf_return"]
                /\ frame' = [frame EXCEPT ![p] = [f EXCEPT !.err = errWildcardDNS01Disabled]]
           ELSE /\ pc' = [pc EXCEPT ![p] = IF i = 4 THEN "cf_lock" ELSE "cf_rlock"]
                /\ frame' = [frame EXCEPT ![p] =
                                [f EXCEPT !.i = i + 1,
                                          !.challenges = IF offer THEN Append(@, Challenge(t))
                                                                  ELSE @]]
        /\ UNCHANGED <<hostVars, enabledChallengesWhitelist, pseudoRNG, rngMu>>

\* line 469: pa.rngMu.Lock()
CfRngLock(p) ==
    /\ pc[p] = "cf_lock"
    /\ CanLockRng(rngMu)
    /\ rngMu' = p
    /\ pc' = [pc EXCEPT ![p] = "cf_perm1"]
    /\ UNCHANGED <<hostVars, enabledChallengesWhitelist, pseudoRNG, blacklistMu, frame>>

\* a goroutine between its two draws learns that another has drawn
Cut(p) == [q \in Procs |->
             IF q # p /\ pc[q] = "cf_perm2" THEN [frame[q] EXCEPT !.cut = TRUE] ELSE frame[q]]

\* lines 471-474: the first draw and the loop over it
CfPerm1(p) ==
    LET challenges == frame[p].challenges
        n == Len(challenges)
        p1 == Perm(pseudoRNG, n)
    IN  /\ pc[p] = "cf_perm1"
        /\ pseudoRNG' = p1.rng
        /\ pc' = [pc EXCEPT ![p] = "cf_perm2"]
        /\ frame' = [Cut(p) EXCEPT ![p].challenges = [i \in 1..n |-> challenges[p1.m[i] + 1]],
                                   ![p].combinations = [i \in 1..n |-> <<i - 1>>]]
        /\ UNCHANGED <<hostVars, enabledChallengesWhitelist, rngMu, blacklistMu>>

\* lines 476-479: the second draw and the loop over it
CfPerm2(p) ==
    LET combinations == frame[p].combinations
        n == Len(combinations)
        p2 == Perm(pseudoRNG, n)
    IN  /\ pc[p] = "cf_perm2"
        /\ pseudoRNG' = p2.rng
        /\ pc' = [pc EXCEPT ![p] = "cf_unlock"]
        /\ frame' = [Cut(p) EXCEPT ![p].combinations =
                                        [i \in 1..n |-> combinations[p2.m[i] + 1]]]
        /\ UNCHANGED <<hostVars, enabledChallengesWhitelist, rngMu, blacklistMu>>

\* a slip: the Unlock is not deferred, and the call returns with rngMu held
CfRngUnlockForgotten(p) ==
    /\ pc[p] = "cf_unlock"
    /\ pc' = [pc EXCEPT ![p] = "cf_return"]
    /\ UNCHANGED <<hostVars, enabledChallengesWhitelist, pseudoRNG, rngMu, blacklistMu, frame>>

\* line 470, deferred: pa.rngMu.Unlock()
CfRngUnlock(p) ==
    /\ pc[p] = "cf_unlock"
    /\ rngMu' = "free"
    /\ pc' = [pc EXCEPT ![p] = "cf_return"]
    /\ UNCHANGED <<hostVars, enabledChallengesWhitelist, pseudoRNG, blacklistMu, frame>>

\* ChallengesFor returns (line 435 or 481)
CfReturn(p) ==
    /\ pc[p] = "cf_return"
    /\ pc' = [pc EXCEPT ![p] = "idle"]
    /\ frame' = [frame EXCEPT ![p] = NoFrame]
    /\ UNCHANGED <<hostVars, enabledChallengesWhitelist, pseudoRNG, rngMu, blacklistMu>>

ConcChalNext ==
    \E p \in Procs :
        \/ \E b \in ConcWhitelistFiles : WlBuild(p, b)
        \/ WlLock(p)
        \/ WlAssign(p)
        \/ WlUnlock(p)
        \/ WlReturn(p)
        \/ \E regID \in ConcRegIDs : CteRLock(p, ChallengeTypeTLSSNI01, regID)
        \/ CteRead(p)
        \/ \E identifier \in ConcChalIdentifiers, regID \in ConcRegIDs :
              CfStart(p, identifier, regID, FALSE)
        \/ CfCteRLock(p)
        \/ CfCteRead(p)
        \/ CfRngLock(p)
        \/ CfPerm1(p)
        \/ CfPerm2(p)
        \/ CfRngUnlock(p)
        \/ CfReturn(p)

ConcChalSpec == Init /\ [][ConcChalNext]_vars

(***************************************************************************)
(* Fair specification: goroutines run every operation statement by         *)
(* statement, the validation calls, the challenge calls and both reload    *)
(* callbacks side by side                                                  *)
(***************************************************************************)

\* a policy file that loads and one that is refused
LiveFiles ==
    { BlacklistJSON(<<x_ex_com>>, <<ex_com>>),
      BlacklistJSON(<<>>, <<ex_com>>) }

\* an allow-list file that loads and one that is refused
LiveWhitelistFiles ==
    { BadWhitelistJSON,
      WhitelistJSON([k \in {ChallengeTypeHTTP01} |-> <<1>>]) }

\* a goroutine begins an operation; a call of WillingToIssue on a well-formed
\* name takes its only lock in checkHostLists
Start(p) ==
    \/ \E b \in LiveFiles : LoadBuild(p, b)
    \/ \E b \in LiveWhitelistFiles : WlBuild(p, b)
    \/ ChlRLock(p, ex_com)
    \/ WtiwStart(p, AcmeIdentifier(IdentifierDNS, Star \o ex_com))
    \/ \E regID \in ConcRegIDs : CteRLock(p, ChallengeTypeTLSSNI01, regID)
    \/ \E regID \in ConcRegIDs :
          CfStart(p, AcmeIdentifier(IdentifierDNS, ex_com), regID, FALSE)

\* a goroutine goes on with the operation it has begun
Step(p) ==
    \/ LoadLock(p)
    \/ LoadAssignBlacklist(p)
    \/ LoadAssignExact(p)
    \/ LoadAssignWildcard(p)
    \/ LoadUnlock(p)
    \/ LoadReturn(p)
    \/ WlLock(p)
    \/ WlAssign(p)
    \/ WlUnlock(p)
    \/ WlReturn(p)
    \/ ChlNil(p)
    \/ ChlLoop(p)
    \/ ChlExact(p)
    \/ ChlRUnlock(p)
    \/ CwNil(p)
    \/ CwLookup(p)
    \/ CwRUnlock(p)
    \/ WtiwCwRLock(p)
    \/ WtiwIssue(p)
    \/ WtiwReturn(p)
    \/ CteRead(p)
    \/ CfCteRLock(p)
    \/ CfCteRead(p)
    \/ CfRngLock(p)
    \/ CfPerm1(p)
    \/ CfPerm2(p)
    \/ CfRngUnlock(p)
    \/ CfReturn(p)

LiveNext == \E p \in Procs : Start(p) \/ Step(p)

\* the Go scheduler runs every goroutine that can run; sync.Mutex hands a
\* lock that is freed again and again to a goroutine that has waited for it
\* (starvation mode), and sync.RWMutex lets the readers in that waited
\* through a write
Fairness == \A p \in Procs : SF_vars(Step(p))

LiveSpec == Init /\ [][LiveNext]_vars /\ Fairness

(***************************************************************************)
(* Properties                                                              *)
(***************************************************************************)

\* the stores after a step
paNext == Stores(blacklist', exactBlacklist', wildcardExactBlacklist')

\* a policy file that must not load: it does not parse, its Blacklist is
\* empty, or one of its ExactBlacklist entries has no '.'
BadPolicyFile(b) ==
    \/ ~b.valid
    \/ Len(b.Blacklist) = 0
    \/ \E i \in 1..Len(b.ExactBlacklist) : Count(b.ExactBlacklist[i], ".") = 0

\* C1: a reload that fails leaves the stores exactly as they were.  Every
\* loadHostnamePolicy call on an unparsable file, a file with an empty
\* Blacklist or a file with a one-label ExactBlacklist entry returns an error,
\* and every call that returns an error leaves blacklist, exactBlacklist and
\* wildcardExactBlacklist unchanged, so that each name checkHostLists blocked
\* before is blocked after; a loadChallengesWhitelist call that returns an
\* error leaves the allow-list unchanged.
C1_FailedReloadKeepsStores ==
    [][ /\ ret'.op = "loadHostnamePolicy" =>
            /\ BadPolicyFile(ret'.arg) => ret'.err # Nil
            /\ ret'.err # Nil =>
                /\ blacklist' = blacklist
                /\ exactBlacklist' = exactBlacklist
                /\ wildcardExactBlacklist' = wildcardExactBlacklist
                /\ \A d \in CheckDomains :
                      checkHostLists(pa, d) = errBlacklisted
                          => checkHostLists(paNext, d) = errBlacklisted
        /\ (ret'.op = "loadChallengesWhitelist" /\ ret'.err # Nil) =>
            enabledChallengesWhitelist' = enabledChallengesWhitelist ]_vars

\* C1 witness: a good snapshot is loaded, and a reload whose second
\* ExactBlacklist entry is malformed (after a valid first one, and with a
\* Blacklist other than the loaded one) has just failed
C1_Witness ==
    /\ ret.op = "loadHostnamePolicy"
    /\ ret.err = errMalformedEntry
    /\ Len(ret.arg.ExactBlacklist) = 2
    /\ ret.arg.ExactBlacklist[1] = a_ex_com
    /\ ret.arg.ExactBlacklist[2] = lcom
    /\ ~blacklist.nil
    /\ blacklist.keys # {ret.arg.Blacklist[i] : i \in 1..Len(ret.arg.Blacklist)}
    /\ a_ex_com \notin exactBlacklist.keys

\* C2: fail closed before the first load.  As long as no loadHostnamePolicy
\* call has succeeded, checkHostLists and checkWildcardHostList return the
\* "not yet loaded" error for every domain, and WillingToIssue and
\* WillingToIssueWildcard return an error for every identifier.
C2_FailClosedBeforeLoad ==
    ~loaded =>
        /\ \A d \in CheckDomains :
              /\ checkHostLists(pa, d) = errNotLoaded
              /\ checkWildcardHostList(pa, d) = errNotLoaded
        /\ \A id \in IssueIdentifiers : WillingToIssue(pa, id) # Nil
        /\ \A id \in WildcardIdentifiers : WillingToIssueWildcard(pa, id) # Nil
        /\ ret.op \in {"checkHostLists", "checkWildcardHostList"} => ret.err = errNotLoaded
        /\ ret.op \in {"WillingToIssue", "WillingToIssueWildcard"} => ret.err # Nil

\* C2 witness: no hostname policy is loaded, an allow-list is, and
\* WillingToIssue has just refused a well-formed name as "not yet loaded"
C2_Witness ==
    /\ ~loaded
    /\ ~enabledChallengesWhitelist.nil
    /\ ret.op = "WillingToIssue"
    /\ ret.arg.Value = a_ex_com
    /\ ret.err = errNotLoaded

\* C3: the snapshot swap is atomic for readers.  All the stores one
\* checkHostLists or checkWildcardHostList call reads were assigned by the
\* same load (or by none), and the error the call is about to return is the
\* one the stores as they are now give.
C3_ReadersSeeOneLoad ==
    \A p \in Procs :
        /\ Cardinality(frame[p].seen) <= 1
        /\ pc[p] = "chl_runlock" => frame[p].err = checkHostLists(pa, frame[p].arg)
        /\ pc[p] = "cw_runlock" => frame[p].err = checkWildcardHostList(pa, frame[p].arg)

\* C3 witness: a checkHostLists call has read blacklist and exactBlacklist of
\* one load and still holds its read lock, while a load of another file has
\* built its maps and waits for the lock
C3_Witness ==
    \E p, q \in Procs :
        /\ pc[p] = "chl_runlock"
        /\ frame[p].err = Nil
        /\ frame[p].seen # {NoLoad}
        /\ pc[q] = "load_lock"
        /\ frame[q].new \notin frame[p].seen

\* entry e is a dot-delimited label suffix of domain d: d itself, or what
\* follows one of d's dots
IsLabelSuffix(e, d) == d = e \/ HasSuffix(d, <<".">> \o e)

\* some label suffix of d is in the suffix blacklist
OnSuffixBlacklist(d) == \E e \in blacklist.keys : IsLabelSuffix(e, d)

\* a name that passes every check WillingToIssue makes before its blacklist
\* lookup (steps 1 to 11); the claims about blacklist matching speak of these
WellFormed(d) == syntaxErr(AcmeIdentifier(IdentifierDNS, d)) = Nil

\* C4: suffix blacklist matching.  With a snapshot loaded, checkHostLists
\* returns the blacklisted error for every domain D of which some label suffix
\* (D itself included) is in blacklist; WillingToIssue accepts no such D and
\* returns the blacklisted error for each one that passes its syntax and
\* public-suffix checks (D, sub.D and a.sub.D alike).  In the other direction
\* a name is blocked only by a label suffix or an exact entry: myex.com is not
\* blocked by the entry ex.com.
C4_SuffixBlacklist ==
    ~blacklist.nil =>
        /\ ret.op = "checkHostLists" =>
              /\ OnSuffixBlacklist(ret.arg) => ret.err = errBlacklisted
              /\ ret.err = errBlacklisted =>
                    OnSuffixBlacklist(ret.arg) \/ ret.arg \in exactBlacklist.keys
        /\ (ret.op = "WillingToIssue" /\ ret.arg.Type = IdentifierDNS) =>
              /\ OnSuffixBlacklist(ret.arg.Value) => ret.err # Nil
              /\ (OnSuffixBlacklist(ret.arg.Value) /\ WellFormed(ret.arg.Value))
                    => ret.err = errBlacklisted
              /\ ret.err = errBlacklisted =>
                    \/ OnSuffixBlacklist(ret.arg.Value)
                    \/ ret.arg.Value \in exactBlacklist.keys

\* C4 witness: only ex.com is blacklisted and WillingToIssue has just refused
\* a.x.ex.com as blacklisted
C4_Witness ==
    /\ blacklist = MakeMap({ex_com})
    /\ exactBlacklist = MakeMap({})
    /\ ret.op = "WillingToIssue"
    /\ ret.arg = AcmeIdentifier(IdentifierDNS, Dot(la, Dot(lx, ex_com)))
    /\ ret.err = errBlacklisted

\* d is a proper subdomain of an exact blacklist entry
UnderExactEntry(d) == \E e \in exactBlacklist.keys : HasSuffix(d, <<".">> \o e)

\* C5: the exact blacklist matches whole names only.  With a snapshot loaded,
\* WillingToIssue(D) is rejected for every D in exactBlacklist, and for a
\* subdomain other.D that passes the syntax and public-suffix checks
\* WillingToIssue(other.D) is accepted unless some label suffix of other.D is
\* in blacklist or other.D is itself in exactBlacklist.
C5_ExactWholeNamesOnly ==
    (~blacklist.nil /\ ret.op = "WillingToIssue" /\ ret.arg.Type = IdentifierDNS) =>
        /\ ret.arg.Value \in exactBlacklist.keys => ret.err # Nil
        /\ (ret.arg.Value \in exactBlacklist.keys /\ WellFormed(ret.arg.Value))
              => ret.err = errBlacklisted
        /\ (UnderExactEntry(ret.arg.Value) /\ WellFormed(ret.arg.Value)) =>
              (ret.err = Nil <=>
                  ~(OnSuffixBlacklist(ret.arg.Value) \/ ret.arg.Value \in exactBlacklist.keys))

\* C5 witness: ex.com is an exact entry and WillingToIssue has just accepted
\* its subdomain a.ex.com
C5_Witness ==
    /\ ex_com \in exactBlacklist.keys
    /\ ret.op = "WillingToIssue"
    /\ ret.arg = AcmeIdentifier(IdentifierDNS, a_ex_com)
    /\ ret.err = Nil

\* an entry without its leftmost label: the text after its first '.'
Parent(e) == SubSeq(e, Index(e, ".") + 1, Len(e))

\* C6: a wildcard that would cover an exact-blacklisted name is never issued.
\* For every entry L.B of the current exactBlacklist, wildcardExactBlacklist
\* contains B and WillingToIssueWildcard("*.B") returns an error; a load that
\* has just succeeded has put every entry of its ExactBlacklist in the stores.
C6_WildcardOverExactRejected ==
    /\ \A e \in exactBlacklist.keys :
          /\ Parent(e) \in wildcardExactBlacklist.keys
          /\ WillingToIssueWildcard(pa, AcmeIdentifier(IdentifierDNS, Star \o Parent(e))) # Nil
    /\ (ret.op = "loadHostnamePolicy" /\ ret.err = Nil) =>
          \A i \in 1..Len(ret.arg.ExactBlacklist) :
              /\ ret.arg.ExactBlacklist[i] \in exactBlacklist.keys
              /\ Parent(ret.arg.ExactBlacklist[i]) \in wildcardExactBlacklist.keys
    /\ (ret.op = "WillingToIssueWildcard" /\ ret.arg.Type = IdentifierDNS
            /\ \E e \in exactBlacklist.keys : ret.arg.Value = Star \o Parent(e))
          => ret.err # Nil

\* C6 witness: a.ex.com is an exact entry, nothing on the suffix blacklist
\* matches ex.com, and WillingToIssueWildcard has just refused *.ex.com as
\* blacklisted
C6_Witness ==
    /\ a_ex_com \in exactBlacklist.keys
    /\ ~OnSuffixBlacklist(x_ex_com)
    /\ ret.op = "WillingToIssueWildcard"
    /\ ret.arg = AcmeIdentifier(IdentifierDNS, Star \o ex_com)
    /\ ret.err = errBlacklisted

\* C7: with a snapshot loaded, all three maps are present and
\* wildcardExactBlacklist is exactly the set of the parents (the entry without
\* its leftmost label) of the entries of exactBlacklist; checkWildcardHostList(B)
\* returns blacklisted if and only if B is the parent of an exactBlacklist entry.
C7_WildcardSetIsParents ==
    ~blacklist.nil =>
        /\ ~exactBlacklist.nil
        /\ ~wildcardExactBlacklist.nil
        /\ wildcardExactBlacklist.keys = {Parent(e) : e \in exactBlacklist.keys}
        /\ ret.op = "checkWildcardHostList" =>
              /\ ret.err \in {Nil, errBlacklisted}
              /\ ret.err = errBlacklisted
                    <=> \E e \in exactBlacklist.keys : Parent(e) = ret.arg

\* C7 witness: a.ex.com is the only exact entry, and checkWildcardHostList has
\* just passed its grandparent com
C7_Witness ==
    /\ exactBlacklist = MakeMap({a_ex_com})
    /\ ret.op = "checkWildcardHostList"
    /\ ret.arg = lcom
    /\ ret.err = Nil

\* The twelve rules of WillingToIssue, each on its own: whether identifier id
\* breaks rule k, whatever the other rules say.
SyntaxBad(label) ==
    \/ Len(label) < 1
    \/ Len(label) > 63
    \/ ~dnsLabelRegexp(label)
    \/ label[Len(label)] = "-"

FormBad(label) ==
    IF punycodeRegexp(label)
    THEN ~ToUnicode(label).ok \/ ~IsNormalString(ToUnicode(label).runes)
    ELSE idnReservedRegexp(label)

Breaks(k, id) ==
    LET d == id.Value
        labels == Split(d, ".")
    IN  CASE k = 1 -> id.Type # IdentifierDNS
          [] k = 2 -> d = <<>>
          [] k = 3 -> HasPrefix(d, Star)
          [] k = 4 -> \E i \in 1..Len(d) : ~isDNSCharacter(d[i])
          [] k = 5 -> Len(d) > 230
          [] k = 6 -> ParseIP(d)
          [] k = 7 -> Len(d) > 0 /\ d[Len(d)] = "."
          [] k = 8 -> Len(labels) > 10 \/ Len(labels) < 2
          [] k = 9 -> \E j \in 1..Len(labels) : SyntaxBad(labels[j])
          [] k = 10 -> \E j \in 1..Len(labels) : FormBad(labels[j])
          [] k = 11 -> ExtractSuffix(d).err \/ ExtractSuffix(d).suffix = d
          [] k = 12 -> checkHostLists(pa, d) # Nil

\* the errors with which rule k is reported
StepErrors(k) ==
    CASE k = 1 -> {errInvalidIdentifier}
      [] k = 2 -> {errEmptyName}
      [] k = 3 -> {errWildcardNotSupported}
      [] k = 4 -> {errInvalidDNSCharacter}
      [] k = 5 -> {errNameTooLong}
      [] k = 6 -> {errIPAddress}
      [] k = 7 -> {errNameEndsInDot}
      [] k = 8 -> {errTooManyLabels, errTooFewLabels}
      [] k = 9 -> {errLabelTooShort, errLabelTooLong, errInvalidDNSCharacter}
      [] k = 10 -> {errMalformedIDN, errInvalidRLDH}
      [] k = 11 -> {errNonPublic, errICANNTLD}
      [] k = 12 -> {errBlacklisted, errNotLoaded}

Broken(id) == {k \in 1..12 : Breaks(k, id)}

Lowest(S) == CHOOSE k \in S : \A j \in S : k <= j

\* C8 as stated: WillingToIssue returns the error of the lowest-numbered rule
\* the identifier breaks, rule 9 (label length and syntax, on any label)
\* before rule 10 (punycode and reserved form, on any label), and nil when it
\* breaks none.
C8_LowestStepFirst ==
    ret.op = "WillingToIssue" =>
        IF Broken(ret.arg) = {} THEN ret.err = Nil
        ELSE ret.err \in StepErrors(Lowest(Broken(ret.arg)))

\* the rule reported for the labels: rules 9 and 10 are applied together, one
\* label at a time from the left, rule 9 before rule 10 within a label
FirstBadLabelStep(id) ==
    LET labels == Split(id.Value, ".")
        bad == {j \in 1..Len(labels) : SyntaxBad(labels[j]) \/ FormBad(labels[j])}
    IN  IF SyntaxBad(labels[Lowest(bad)]) THEN 9 ELSE 10

\* C8 as amended: WillingToIssue returns the error of the lowest-numbered
\* rule among 1 to 8 that the identifier breaks; if it breaks none of them but
\* some label breaks rule 9 or 10, the error of the leftmost such label (rule
\* 9 before rule 10 within that label); else the error of rule 11, else of
\* rule 12 (blacklisted or "not yet loaded"); nil when it breaks no rule.
C8_LowestStepFirstPerLabel ==
    ret.op = "WillingToIssue" =>
        LET broken == Broken(ret.arg)
        IN  IF broken = {} THEN ret.err = Nil
            ELSE IF broken \cap (1..8) # {}
            THEN ret.err \in StepErrors(Lowest(broken \cap (1..8)))
            ELSE IF broken \cap {9, 10} # {}
            THEN ret.err \in StepErrors(FirstBadLabelStep(ret.arg))
            ELSE ret.err \in StepErrors(Lowest(broken))

\* C8 witness: ab--c.a-.com, whose first label has the reserved form (rule
\* 10) and whose second label ends in '-' (rule 9), has just been refused
\* with the reserved-form error of its first label
C8_Witness ==
    /\ ret.op = "WillingToIssue"
    /\ ret.arg = AcmeIdentifier(IdentifierDNS, Dot(lrldh, Dot(ldash, lcom)))
    /\ Broken(ret.arg) \cap (1..10) = {9, 10}
    /\ ret.err = errInvalidRLDH

\* The failures of a wildcard identifier, each on its own.
Stars(id) == Count(id.Value, "*")

\* the value without its first two characters, "*." in a well-placed wildcard
Base(id) == SubSeq(id.Value, 3, Len(id.Value))

StarMisplaced(id) == ~HasPrefix(id.Value, Star)
NoPublicSuffix(d) == ExtractSuffix(d).err
IsPublicSuffix(d) == ~ExtractSuffix(d).err /\ ExtractSuffix(d).suffix = d
XName(d) == AcmeIdentifier(IdentifierDNS, <<"x", ".">> \o d)

\* C9: WillingToIssueWildcard decides a value that holds a '*' in this order,
\* returning the first failure: a type other than DNS, "invalid identifier
\* type"; more than one '*', "too many wildcards"; one '*' that is not the
\* prefix "*.", "malformed wildcard"; a base domain without public suffix,
\* "not a public name"; a base domain that is its own public suffix, the
\* TLD-wildcard error; no policy loaded, "not yet loaded"; a base domain in
\* wildcardExactBlacklist, blacklisted; otherwise what WillingToIssue returns
\* for the substituted name.  A value without '*' gets what WillingToIssue
\* returns for it.  "*.D" for a two-label D that is no public suffix is
\* accepted when a policy is loaded and neither list blocks "x.D" or D.
C9_WildcardOrder ==
    ret.op = "WillingToIssueWildcard" =>
        LET id == ret.arg
            one == id.Type = IdentifierDNS /\ Stars(id) = 1 /\ ~StarMisplaced(id)
            public == one /\ ~NoPublicSuffix(Base(id)) /\ ~IsPublicSuffix(Base(id))
        IN  /\ id.Type # IdentifierDNS => ret.err = errInvalidIdentifier
            /\ (id.Type = IdentifierDNS /\ Stars(id) > 1) => ret.err = errTooManyWildcards
            /\ (id.Type = IdentifierDNS /\ Stars(id) = 1 /\ StarMisplaced(id))
                  => ret.err = errMalformedWildcard
            /\ (one /\ NoPublicSuffix(Base(id))) => ret.err = errNonPublic
            /\ (one /\ IsPublicSuffix(Base(id))) => ret.err = errICANNTLDWildcard
            /\ (public /\ blacklist.nil) => ret.err = errNotLoaded
            /\ (public /\ ~blacklist.nil /\ Base(id) \in wildcardExactBlacklist.keys)
                  => ret.err = errBlacklisted
            /\ (public /\ ~blacklist.nil /\ Base(id) \notin wildcardExactBlacklist.keys)
                  => ret.err = WillingToIssue(pa, XName(Base(id)))
            /\ (id.Type = IdentifierDNS /\ Stars(id) = 0) => ret.err = WillingToIssue(pa, id)
            /\ (public /\ ~blacklist.nil /\ Base(id) \in {ex_com, myex_com}
                    /\ Base(id) \notin wildcardExactBlacklist.keys
                    /\ ~OnSuffixBlacklist(XName(Base(id)).Value)
                    /\ XName(Base(id)).Value \notin exactBlacklist.keys)
                  => ret.err = Nil

\* C9 witness: a policy whose ExactBlacklist holds ex.com is loaded, so that
\* com is in wildcardExactBlacklist, and "*.com" has just been refused with
\* the TLD-wildcard error, which comes before the blacklist lookup
C9_Witness ==
    /\ lcom \in wildcardExactBlacklist.keys
    /\ ret.op = "WillingToIssueWildcard"
    /\ ret.arg = AcmeIdentifier(IdentifierDNS, Star \o lcom)
    /\ ret.err = errICANNTLDWildcard

\* "*.B" is a well-formed wildcard: one '*', in the prefix "*.", in front of
\* a name B such that B and "x." + B pass WillingToIssue's checks 1 to 11
WellFormedWildcard(id) ==
    /\ id.Type = IdentifierDNS
    /\ Stars(id) = 1
    /\ HasPrefix(id.Value, Star)
    /\ WellFormed(Base(id))
    /\ WellFormed(XName(Base(id)).Value)

IsParentOfExact(d) == \E e \in exactBlacklist.keys : Parent(e) = d

\* C10 as stated: for a well-formed wildcard "*.B", with a policy loaded, if
\* B is in exactBlacklist, no label suffix of B is in blacklist and B is the
\* parent of no exactBlacklist entry, then WillingToIssueWildcard("*.B") is
\* accepted.
C10_ExactBaseAccepted ==
    (ret.op = "WillingToIssueWildcard" /\ WellFormedWildcard(ret.arg) /\ ~blacklist.nil
        /\ Base(ret.arg) \in exactBlacklist.keys
        /\ ~OnSuffixBlacklist(Base(ret.arg))
        /\ ~IsParentOfExact(Base(ret.arg)))
      => /\ ret.err = Nil
         /\ WillingToIssue(pa, AcmeIdentifier(IdentifierDNS, Base(ret.arg))) = errBlacklisted

\* C10 as amended: for a well-formed wildcard "*.B" with B not in
\* wildcardExactBlacklist, WillingToIssueWildcard returns exactly what
\* WillingToIssue returns for "x." + B.  With a policy loaded: when B is in
\* exactBlacklist, no label suffix of B is in blacklist, B is the parent of no
\* exactBlacklist entry and "x." + B is itself no blacklist entry, "*.B" is
\* accepted while WillingToIssue(B) is rejected; when B is in exactBlacklist
\* and "x." + B is a blacklist entry, "*.B" is rejected as blacklisted; and
\* when any label suffix of B is in blacklist, "*.B" is rejected.
C10_WildcardSubstitution ==
    (ret.op = "WillingToIssueWildcard" /\ WellFormedWildcard(ret.arg)) =>
        LET B == Base(ret.arg)
        IN  /\ checkWildcardHostList(pa, B) = Nil => ret.err = WillingToIssue(pa, XName(B))
            /\ (~blacklist.nil /\ B \in exactBlacklist.keys /\ ~OnSuffixBlacklist(B)
                    /\ ~IsParentOfExact(B) /\ XName(B).Value \notin blacklist.keys)
                  => /\ ret.err = Nil
                     /\ WillingToIssue(pa, AcmeIdentifier(IdentifierDNS, B)) = errBlacklisted
            /\ (~blacklist.nil /\ B \in exactBlacklist.keys
                    /\ XName(B).Value \in blacklist.keys)
                  => ret.err = errBlacklisted
            /\ (~blacklist.nil /\ OnSuffixBlacklist(B)) => ret.err = errBlacklisted

\* C10 witness: ex.com is the only exact entry, the blacklist holds only
\* x.a.ex.com, and "*.ex.com" has just been accepted
C10_Witness ==
    /\ exactBlacklist = MakeMap({ex_com})
    /\ blacklist = MakeMap({x_a_ex_com})
    /\ ret.op = "WillingToIssueWildcard"
    /\ ret.arg = AcmeIdentifier(IdentifierDNS, Star \o ex_com)
    /\ ret.err = Nil

\* the two validators
Validators == {"WillingToIssue", "WillingToIssueWildcard"}

Listed(b, t) == IF t \in DOMAIN b.wl THEN {b.wl[t][i] : i \in 1..Len(b.wl[t])} ELSE {}

\* the accounts of the allow-list now in place for a challenge type
Allowed(t) ==
    IF ~enabledChallengesWhitelist.nil /\ t \in DOMAIN enabledChallengesWhitelist.m
    THEN enabledChallengesWhitelist.m[t]
    ELSE {}

\* a call of loadChallengesWhitelist has just returned nil
WhitelistLoaded ==
    /\ ret' # ret
    /\ ret'.op = "loadChallengesWhitelist"
    /\ ret'.err = Nil

\* C12: ChallengeTypeEnabled(t, account) has no error path and returns true
\* if and only if t is enabled in the map New was given or account is in
\* the current allow-list for t.  The map New was given never changes.  The
\* allow-list is absent until a loadChallengesWhitelist succeeds, and then
\* ChallengeTypeEnabled returns the globally-enabled value; a successful load
\* makes the allow-list exactly the lists of its file, whatever was there
\* before, and no other step changes it.
C12_ChallengeTypeEnabled ==
    /\ [](ret.op = "ChallengeTypeEnabled" =>
            /\ ret.err = Nil
            /\ ret.val <=> \/ ret.arg[1] \in enabledChallenges.keys
                           \/ ret.arg[2] \in Allowed(ret.arg[1])
            /\ enabledChallengesWhitelist.nil
                  => (ret.val <=> ret.arg[1] \in enabledChallenges.keys))
    /\ [][/\ enabledChallenges' = enabledChallenges
          /\ IF WhitelistLoaded
             THEN /\ ~enabledChallengesWhitelist'.nil
                  /\ \A t \in ChallengeTypes :
                        /\ Listed(ret'.arg, t) = IF t \in DOMAIN enabledChallengesWhitelist'.m
                                                 THEN enabledChallengesWhitelist'.m[t]
                                                 ELSE {}
                        /\ t \in DOMAIN enabledChallengesWhitelist'.m <=> t \in DOMAIN ret'.arg.wl
             ELSE enabledChallengesWhitelist' = enabledChallengesWhitelist]_vars

\* C12 witness: TLS-SNI-01 is not enabled in New's map, the allow-list now
\* in place lists account 2 for it and nobody for DNS-01, and
\* ChallengeTypeEnabled has just returned true for TLS-SNI-01 and account 2
C12_Witness ==
    /\ ChallengeTypeTLSSNI01 \notin enabledChallenges.keys
    /\ Allowed(ChallengeTypeTLSSNI01) = {2}
    /\ Allowed(ChallengeTypeDNS01) = {}
    /\ ret.op = "ChallengeTypeEnabled"
    /\ ret.arg = <<ChallengeTypeTLSSNI01, 2>>
    /\ ret.val = TRUE

\* a challenge type is enabled for an account: in the map New was given, or
\* through the allow-list now in place
EnabledFor(t, regID) == t \in enabledChallenges.keys \/ regID \in Allowed(t)

\* the ChallengesFor call that has just returned was for a wildcard
WildcardChallengesReturned ==
    /\ ret.op = "ChallengesFor"
    /\ Len(ret.arg[1].Value) >= 2
    /\ SubSeq(ret.arg[1].Value, 1, 2) = <<"*", ".">>

\* C13: ChallengesFor on an identifier whose value starts with "*.": if
\* DNS-01 is not enabled for the account it returns an error, no challenges
\* and no combinations; if DNS-01 is enabled it returns exactly one
\* challenge, of type DNS-01, and the one combination [0], whatever other
\* types are enabled and whatever the revalidation flag.
C13_WildcardOnlyDNS01 ==
    WildcardChallengesReturned =>
        IF EnabledFor(ChallengeTypeDNS01, ret.arg[2])
        THEN /\ ret.err = Nil
             /\ ret.val.challenges = <<[Type |-> ChallengeTypeDNS01]>>
             /\ ret.val.combinations = << <<0>> >>
        ELSE /\ ret.err # Nil
             /\ ret.val.challenges = <<>>
             /\ ret.val.combinations = <<>>

\* C13 witness: HTTP-01 is enabled for everyone, DNS-01 only through the
\* allow-list for account 1, the revalidation feature is on, and a
\* revalidation for "*.ex.com" by account 1 has just got its one challenge
C13_Witness ==
    /\ WildcardChallengesReturned
    /\ ChallengeTypeHTTP01 \in enabledChallenges.keys
    /\ ChallengeTypeDNS01 \notin enabledChallenges.keys
    /\ TLSSNIRevalidation
    /\ ret.arg[2] = 1 /\ ret.arg[3] = TRUE
    /\ Len(ret.val.challenges) = 1

\* the ChallengesFor call that has just returned was for a name without "*."
PlainChallengesReturned ==
    /\ ret.op = "ChallengesFor"
    /\ ~WildcardChallengesReturned

\* the challenge types a name without wildcard is to be offered
Offered(regID, revalidation) ==
    {t \in {ChallengeTypeHTTP01, ChallengeTypeTLSALPN01, ChallengeTypeDNS01} :
        EnabledFor(t, regID)}
    \cup (IF \/ EnabledFor(ChallengeTypeTLSSNI01, regID)
             \/ (TLSSNIRevalidation /\ revalidation)
          THEN {ChallengeTypeTLSSNI01} ELSE {})

\* C14: ChallengesFor on an identifier without wildcard never fails; the
\* types of the challenges returned are exactly HTTP-01 if enabled for the
\* account, TLS-SNI-01 if enabled for the account or the revalidation
\* feature is on and the call is a revalidation, TLS-ALPN-01 if enabled and
\* DNS-01 if enabled, each at most once; there are as many combinations as
\* challenges, each a singleton, and their indices are 0..n-1, each once.
C14_PlainChallenges ==
    PlainChallengesReturned =>
        LET challenges == ret.val.challenges
            combinations == ret.val.combinations
            n == Len(challenges)
        IN  /\ ret.err = Nil
            /\ {challenges[i].Type : i \in 1..n} = Offered(ret.arg[2], ret.arg[3])
            /\ \A i, j \in 1..n : challenges[i].Type = challenges[j].Type => i = j
            /\ Len(combinations) = n
            /\ \A i \in 1..n : Len(combinations[i]) = 1
            /\ {combinations[i][1] : i \in 1..n} = 0..(n - 1)
            /\ \A i, j \in 1..n : combinations[i] = combinations[j] => i = j
            /\ Offered(ret.arg[2], ret.arg[3]) = ChallengeTypes => n = 4
            /\ Offered(ret.arg[2], ret.arg[3]) = {}
                  => challenges = <<>> /\ combinations = <<>>

\* C14 witness: HTTP-01 and DNS-01 are enabled, TLS-SNI-01 for nobody, the
\* revalidation feature is on, and a revalidation for ex.com has just been
\* offered three challenges
C14_Witness ==
    /\ PlainChallengesReturned
    /\ enabledChallenges.keys = {ChallengeTypeHTTP01, ChallengeTypeDNS01}
    /\ enabledChallengesWhitelist.nil
    /\ TLSSNIRevalidation
    /\ ret.arg[3] = TRUE
    /\ Len(ret.val.challenges) = 3

\* the four challenges in the order ChallengesFor collects them
AllFour ==
    << [Type |-> ChallengeTypeHTTP01], [Type |-> ChallengeTypeTLSSNI01],
       [Type |-> ChallengeTypeTLSALPN01], [Type |-> ChallengeTypeDNS01] >>

\* a list put in the order a permutation of 0..n-1 gives
Permuted(list, m) == [i \in 1..Len(list) |-> list[m[i] + 1]]

\* the generator after k more numbers are drawn
RECURSIVE Drawn(_, _)
Drawn(rng, k) == IF k = 0 THEN rng ELSE Drawn(rngStep(rng), k - 1)

\* what the first ChallengesFor call on a new authority returns when all
\* four types are enabled
FirstCall ==
    LET p1 == Perm(NewSource(RngSeed), 4)
        p2 == Perm(p1.rng, 4)
    IN  [challenges |-> Permuted(AllFour, p1.m),
         combinations |-> Permuted(<< <<0>>, <<1>>, <<2>>, <<3>> >>, p2.m)]

\* C15 as stated: for a name without wildcard and all four types enabled,
\* every ChallengesFor call on an authority returns the same permutation of
\* challenges and the same permutation of combinations, those of the first
\* call.
C15_SamePermutationEachCall ==
    (PlainChallengesReturned /\ Offered(ret.arg[2], ret.arg[3]) = ChallengeTypes)
        => ret.val = FirstCall

\* C15 as amended: the generator is seeded with 99 when the authority is
\* made and only ChallengesFor draws from it.  A call that returns n
\* challenges returns them in the order the generator's next permutation
\* gives and the combinations in the order of the permutation after that,
\* and leaves the generator 2n draws on; so what a call returns is
\* determined by the seed and the calls before it, and a repeated call
\* gets the next permutations, not those of the call before.
C15_DeterminedBySeedAndHistory ==
    /\ pseudoRNG = NewSource(RngSeed)
    /\ [][IF ret' # ret /\ ret'.op = "ChallengesFor" /\ ret'.err = Nil
          THEN LET n == Len(ret'.val.challenges)
                   p1 == Perm(pseudoRNG, n)
                   p2 == Perm(p1.rng, n)
                   sorted == IF WildcardChallengesReturned'
                             THEN <<[Type |-> ChallengeTypeDNS01]>>
                             ELSE SelectSeq(AllFour,
                                    LAMBDA c : c.Type \in Offered(ret'.arg[2], ret'.arg[3]))
               IN  /\ ret'.val.challenges = Permuted(sorted, p1.m)
                   /\ ret'.val.combinations = Permuted([i \in 1..n |-> <<i - 1>>], p2.m)
                   /\ pseudoRNG' = Drawn(pseudoRNG, 2 * n)
          ELSE pseudoRNG' = pseudoRNG]_vars

\* C15 witness: all four types are enabled and a ChallengesFor call for
\* ex.com has just returned them in another order than the first call did
C15_Witness ==
    /\ PlainChallengesReturned
    /\ enabledChallenges.keys = ChallengeTypes
    /\ Len(ret.val.challenges) = 4
    /\ ret.val.challenges # FirstCall.challenges
    /\ ret.val.combinations # FirstCall.combinations

\* a label of 1 to 63 characters out of letters, digits and '-', that
\* starts with a letter or digit and does not end in '-'
LabelShape(label, letters) ==
    /\ Len(label) \in 1..maxLabelLength
    /\ \A i \in 1..Len(label) : label[i] \in letters \cup Digit \cup {"-"}
    /\ label[1] # "-"
    /\ label[Len(label)] # "-"

LabelErrors == {errInvalidDNSCharacter, errLabelTooShort, errLabelTooLong}

HasUpper(d) == \E i \in 1..Len(d) : d[i] \in Upper

\* a name with each upper-case letter replaced by its lower-case letter
ToLower(d) ==
    [i \in 1..Len(d) |->
        IF d[i] \in Upper
        THEN LowerSeq[CHOOSE k \in 1..Len(UpperSeq) : UpperSeq[k] = d[i]]
        ELSE d[i]]

\* C17 as stated: a name whose labels are all of the shape above, in upper or
\* lower case, is not rejected by the per-label checks, and a name that
\* differs from an accepted name only in the case of its letters is not
\* rejected with "invalid character".
C17_CaseInsensitiveLabels ==
    (ret.op = "WillingToIssue" /\ ret.arg.Type = IdentifierDNS) =>
        LET labels == Split(ret.arg.Value, ".")
        IN  /\ (\A i \in 1..Len(labels) : LabelShape(labels[i], Lower \cup Upper))
                  => ret.err \notin LabelErrors
            /\ WillingToIssue(pa, AcmeIdentifier(IdentifierDNS, ToLower(ret.arg.Value))) = Nil
                  => ret.err # errInvalidDNSCharacter

\* C17 as amended: per-label syntax is case-sensitive.  A name whose labels
\* are all of the shape above in lower case is not rejected by the per-label
\* checks.  A name with an upper-case letter is never accepted, and one that
\* differs from an accepted name only in the case of its letters is
\* rejected with "invalid character".
C17_LowerCaseLabelsOnly ==
    (ret.op = "WillingToIssue" /\ ret.arg.Type = IdentifierDNS) =>
        LET labels == Split(ret.arg.Value, ".")
        IN  /\ (\A i \in 1..Len(labels) : LabelShape(labels[i], Lower))
                  => ret.err \notin LabelErrors
            /\ HasUpper(ret.arg.Value) => ret.err # Nil
            /\ (/\ HasUpper(ret.arg.Value)
                /\ WillingToIssue(pa, AcmeIdentifier(IdentifierDNS, ToLower(ret.arg.Value))) = Nil)
                  => ret.err = errInvalidDNSCharacter

\* C17 witness: a.ex.com would be accepted, and A.ex.com has just been
\* rejected with "invalid character"
C17_Witness ==
    /\ ret.op = "WillingToIssue"
    /\ ret.arg = AcmeIdentifier(IdentifierDNS, Dot(<<"A">>, ex_com))
    /\ ret.err = errInvalidDNSCharacter
    /\ WillingToIssue(pa, AcmeIdentifier(IdentifierDNS, a_ex_com)) = Nil

\* C18: a whole wildcard decision is taken against one snapshot.  When a
\* WillingToIssueWildcard call that runs beside loadHostnamePolicy calls is
\* about to return, the stores its checkWildcardHostList and its
\* checkHostLists have read were assigned by one load, and its result is the
\* one WillingToIssueWildcard gives on a snapshot it has read; it accepts no
\* wildcard that every snapshot it has read rejects.
C18_WildcardOneSnapshot ==
    \A p \in Procs :
        (pc[p] = "wtiw_return" /\ frame[p].wseen # {}) =>
            /\ Cardinality(frame[p].wseen) <= 1
            /\ \E s \in frame[p].wseen : frame[p].err = WillingToIssueWildcard(s, frame[p].id)

\* the three stores are all absent or all present
AllOrNothing ==
    /\ blacklist.nil = exactBlacklist.nil
    /\ exactBlacklist.nil = wildcardExactBlacklist.nil

\* a store that is present stays present
StaysPresent ==
    /\ ~blacklist.nil => ~blacklist'.nil
    /\ ~exactBlacklist.nil => ~exactBlacklist'.nil
    /\ ~wildcardExactBlacklist.nil => ~wildcardExactBlacklist'.nil

\* C20 as stated: in every reachable state the three stores are all absent
\* or all present; blacklist, when present, is not empty; once a load has
\* succeeded no store is absent again.
C20_PresenceInEveryState ==
    /\ AllOrNothing
    /\ ~blacklist.nil => blacklist.keys # {}
    /\ loaded => ~blacklist.nil /\ ~exactBlacklist.nil /\ ~wildcardExactBlacklist.nil

\* C20 as amended: in every state in which no load holds the write lock,
\* and so in every state a reader can see, the three stores are all absent
\* or all present; the first successful load, while it holds the write
\* lock, assigns them one after the other.  In every state blacklist, when
\* present, is not empty; no step makes a present store absent; and once a
\* load has succeeded no store is absent again.
C20_PresenceOutsideLoad ==
    /\ [](/\ ~blacklistMu.writer => AllOrNothing
          /\ ~blacklist.nil => blacklist.keys # {}
          /\ loaded => ~blacklist.nil /\ ~exactBlacklist.nil /\ ~wildcardExactBlacklist.nil)
    /\ [][StaysPresent]_vars

\* C20 witness: a load has succeeded, a later load of a file with an empty
\* Blacklist is about to return its error, and the stores are still there
C20_Witness ==
    /\ loaded
    /\ \E p \in Procs : pc[p] = "load_return" /\ frame[p].err = errNoEntries
    /\ ~blacklist.nil /\ ~exactBlacklist.nil /\ ~wildcardExactBlacklist.nil

\* a goroutine is where ChallengesFor holds rngMu
InRngSection(p) == pc[p] \in {"cf_perm1", "cf_perm2", "cf_unlock"}

\* C16: the draws of concurrent ChallengesFor calls never interleave.  A
\* call makes both its draws within one acquisition of rngMu, which it
\* alone holds from before the first draw until after the second, and no
\* other goroutine draws between the two; every step that draws from the
\* generator or locks or unlocks rngMu is a step of a ChallengesFor call,
\* never one of ChallengeTypeEnabled or of a reload.
C16_DrawsNeverInterleave ==
    /\ [](\A p \in Procs :
            /\ ~frame[p].cut
            /\ InRngSection(p) <=> rngMu = p)
    /\ [][(pseudoRNG' # pseudoRNG \/ rngMu' # rngMu) =>
            \E p \in Procs :
                /\ frame[p].call = "ChallengesFor"
                /\ pc'[p] # pc[p]
                /\ pseudoRNG' # pseudoRNG => (rngMu = p /\ rngMu' = p)]_vars

\* C16 witness: one ChallengesFor call has made its first draw of four
\* numbers and not yet its second, and another waits for rngMu
C16_Witness ==
    \E p, q \in Procs :
        /\ p # q
        /\ pc[p] = "cf_perm2"
        /\ Len(frame[p].challenges) = 4
        /\ pc[q] = "cf_lock"

\* the types ChallengesFor is to offer an account when the allow-list is wl
OfferedUnder(wl, regID, revalidation) ==
    {t \in ChallengeTypes :
        \/ ChallengeTypeEnabled([chal EXCEPT !.enabledChallengesWhitelist = wl], t, regID)
        \/ (t = ChallengeTypeTLSSNI01 /\ TLSSNIRevalidation /\ revalidation)}

\* C19: a ChallengesFor call sees one allow-list.  When a call for a name
\* without wildcard that runs beside loadChallengesWhitelist calls is about
\* to return, the types of its challenges are those one of the allow-lists
\* it has read gives the account.
C19_OneAllowList ==
    \A p \in Procs :
        (pc[p] = "cf_return" /\ ~HasPrefix(frame[p].arg[1].Value, Star)) =>
            \E wl \in frame[p].wlseen :
                {frame[p].challenges[i].Type : i \in 1..Len(frame[p].challenges)}
                    = OfferedUnder(wl, frame[p].arg[2], frame[p].arg[3])

\* where a goroutine holds the read lock of blacklistMu
ReadSection ==
    {"chl_nil", "chl_loop", "chl_exact", "chl_runlock", "cw_nil", "cw_lookup",
     "cw_runlock", "cte_read", "cf_read"}

\* where a goroutine holds the write lock of blacklistMu
WriteSection ==
    {"load_blacklist", "load_exact", "load_wildcard", "load_unlock", "wl_assign", "wl_unlock"}

\* where a goroutine is inside blacklistMu.Lock and waits for the readers
WaitSection == {"load_wait", "wl_wait"}

HoldsStore(p) == pc[p] \in ReadSection \cup WriteSection \cup WaitSection

\* the two locks say what the goroutines' places in the code say
LockAccounting ==
    /\ blacklistMu.readers = Cardinality({p \in Procs : pc[p] \in ReadSection})
    /\ blacklistMu.writer <=> (\E p \in Procs : pc[p] \in WriteSection)
    /\ blacklistMu.pending <=> (\E p \in Procs : pc[p] \in WaitSection)
    /\ Cardinality({p \in Procs : pc[p] \in WriteSection \cup WaitSection}) <= 1
    /\ blacklistMu.writer => blacklistMu.readers = 0
    /\ rngMu \in Procs \cup {"free"}
    /\ \A p \in Procs : rngMu = p <=> InRngSection(p)
    /\ (\A p \in Procs : pc[p] = "idle") =>
            /\ blacklistMu = [writer |-> FALSE, pending |-> FALSE, readers |-> 0]
            /\ rngMu = "free"

\* a step that begins to take one of the locks is the step of a goroutine
\* that holds neither
NoNestedAcquire ==
    \A p \in Procs :
        pc'[p] # pc[p] =>
            /\ (\/ blacklistMu'.readers > blacklistMu.readers
                \/ (blacklistMu'.pending /\ ~blacklistMu.pending)) =>
                    (~HoldsStore(p) /\ rngMu # p /\ rngMu' = rngMu)
            /\ (rngMu' = p /\ rngMu # p) =>
                    (~HoldsStore(p) /\ blacklistMu' = blacklistMu)

\* C21: no lock nesting and no deadlock: the lock variables always agree
\* with the goroutines' places in the code, no goroutine begins to take
\* blacklistMu while it holds rngMu or blacklistMu, or rngMu while it holds
\* blacklistMu, and, under fair scheduling, every operation a goroutine has
\* begun returns, with rngMu not held by that goroutine and the goroutine in
\* none of blacklistMu's sections
C21_NoNestingNoDeadlock ==
    /\ []LockAccounting
    /\ [][NoNestedAcquire]_vars
    /\ \A p \in Procs : (pc[p] # "idle") ~> (pc[p] = "idle" /\ rngMu # p /\ ~HoldsStore(p))

\* C21 witness: a reload has announced itself at blacklistMu.Lock and waits
\* for a ChallengesFor call that is inside ChallengeTypeEnabled with the read
\* lock, so that no new reader can enter
C21_Witness ==
    \E p, q \in Procs :
        /\ pc[p] \in WaitSection
        /\ pc[q] = "cf_read"
        /\ blacklistMu.pending
        /\ blacklistMu.readers = 1
        /\ ~CanRLock(blacklistMu)

=============================================================================
